---------------------------- MODULE Spec2Model ----------------------------
(***************************************************************************)
(* Bot session / authentication / streaming-chat pipeline of the GAIA API. *)
(*                                                                         *)
(*   SpecSession : BotService.get_or_create_session / reset_session under  *)
(*                 concurrent callers (bot_service.py, endpoints/bot.py)   *)
(*   SpecStream  : bot_chat_stream and its event_generator, next to a      *)
(*                 bot_chat request (endpoints/bot.py)                     *)
(*   SpecChat    : a bot_chat exchange concurrent with a chat-stream       *)
(*                 exchange (endpoints/bot.py)                             *)
(*   SpecAuth    : BotAuthMiddleware, PlatformLinkService and the bot      *)
(*                 session tokens (bot_auth_middleware.py,                 *)
(*                 platform_link_service.py, bot_token_service.py)         *)
(*   SpecRate    : the bot rate-limit counters (endpoints/bot.py)          *)
(*   SpecLink    : PlatformLinkService.link_account / unlink_account       *)
(*                 (platform_link_service.py)                              *)
(*   SpecProvision, SpecReset : system-workflow provisioning and reset     *)
(*                 (system_workflows/provisioner.py)                       *)
(*   SpecTasks   : unified_startup / unified_shutdown background tasks     *)
(*                 (core/provider_registration.py)                         *)
(*   SpecRedirect    : extract_output_redirect (utils/command_parsing.py)  *)
(*   SpecFrontmatter : split_yaml_frontmatter (utils/markdown_utils.py)    *)
(***************************************************************************)
EXTENDS Integers, Sequences, FiniteSets, TLC

VARIABLES
    bot_sessions,     \* bot_sessions_collection: set of session documents
    conversations,    \* conversations_collection: conversation_id -> document
    next_uuid,        \* uuid4(): the next conversation id never handed out before
    call,             \* in-flight get_or_create_session calls, one record per caller
    gpc,              \* bot_chat_stream: position of the handler / event_generator
    chat_conversation_id, \* bot_chat_stream: conversation_id resolved for the request
    message,          \* bot_chat_stream: request.message
    stream,           \* chunks the generator has taken from call_agent's stream
    out,              \* events yielded to the client, in order
    complete_message, \* event_generator: the accumulated assistant reply
    update_calls,     \* number of update_messages calls made for the exchange
    exc,              \* event_generator: the exception bound by "except Exception as e"
    platform_links,   \* users_collection: account -> platform -> platform_links.<platform>.id
    cache,            \* Redis identity cache: "bot_user:<platform>:<id>" -> user_info
    now,              \* wall clock, in minutes
    req,              \* the request BotAuthMiddleware.dispatch is handling
    redis,            \* redis_cache.redis: "up", "down" (commands raise) or "none" (no client)
    ratelimit,        \* Redis key "bot_ratelimit:<platform>:<id>": count and expiry
    clock,            \* wall clock of the counter store, in seconds
    rl,               \* in-flight enforce_rate_limit calls, one record per caller
    admitted,         \* requests admitted on a count since the key was last created
    lk,               \* in-flight link_account calls, one record per caller
    chat,             \* bot_chat: the request being handled, with its locals
    workflows,        \* workflows_collection: set of workflow documents
    pv,               \* in-flight provision_system_workflows calls, one per caller
    notifications,    \* notifications created by _notify_workflows_provisioned
    triggers,         \* trigger ids registered with the trigger provider
    next_trigger,     \* the next trigger id the provider hands out
    rs,               \* in-flight reset_system_workflow_to_default calls, per caller
    background_tasks, \* _background_tasks: the registry of spawned warmup tasks
    task,             \* the asyncio tasks spawned by _spawn_background_task
    sd,               \* position of the process: startup, serving, unified_shutdown
    logged,           \* names whose failure logger.error has reported
    command_str,      \* extract_output_redirect: the argument, a sequence of characters
    redirect,         \* extract_output_redirect: the value returned
    content,          \* split_yaml_frontmatter: the argument, a sequence of characters
    frontmatter       \* split_yaml_frontmatter: the value returned

sessionVars == <<bot_sessions, next_uuid, call>>

streamVars ==
    <<gpc, chat_conversation_id, message, stream, out, complete_message, update_calls, exc,
      chat>>

authVars == <<platform_links, cache, now, req>>

rateVars == <<redis, ratelimit, clock, rl, admitted>>

linkVars == <<lk>>

workflowVars == <<workflows, pv, notifications, triggers, next_trigger, rs>>

\* the variables of the subsystems outside the bot endpoints
taskVars == <<background_tasks, task, sd, logged>>

textVars == <<command_str, redirect, content, frontmatter>>

restVars == <<workflowVars, taskVars, textVars>>

vars == <<bot_sessions, conversations, next_uuid, call,
          gpc, chat_conversation_id, message, stream, out, complete_message, update_calls,
          exc, platform_links, cache, now, req,
          redis, ratelimit, clock, rl, admitted, lk, chat,
          workflows, pv, notifications, triggers, next_trigger, rs,
          background_tasks, task, sd, logged,
          command_str, redirect, content, frontmatter>>

-----------------------------------------------------------------------------
(* Bounds and input sets *)

MaxConvs == 2
MaxChunks == 3
MaxTime == 10
TickMinutes == 5
MaxCount == 22
MaxSeconds == 120
TickSeconds == 30

None == "None"
NoConv == 0

Accounts == {"A", "B"}
Platforms == {"discord"}
PlatformUserIds == {"u1"}
\* channel_id values: absent (a direct message), a channel, and a channel whose
\* id is the string "dm"
Channels == {None, "c1", "dm"}
Callers == {"r1", "r2"}
LinkIds == {"u1", "u2"}

ConvIds == 1..MaxConvs

-----------------------------------------------------------------------------
(* Session manager: bot_service.py / endpoints/bot.py *)

build_session_key(platform, platform_user_id, channel_id) ==
    LET suffix == IF channel_id = None \/ channel_id = "" THEN "dm" ELSE channel_id
    IN  platform \o ":" \o platform_user_id \o ":" \o suffix

\* faulty variant: uuid4 hands out an identifier that is already in use
uuid4_reused == IF next_uuid > 1 THEN next_uuid - 1 ELSE next_uuid

\* str(uuid4()): an identifier no earlier call returned
uuid4 == next_uuid

IdleCall ==
    [pc |-> "idle", platform |-> None, platform_user_id |-> None,
     channel_id |-> None, user |-> None, conv_id |-> NoConv,
     conversation_id |-> NoConv, res |-> NoConv,
     reset |-> FALSE, before |-> NoConv]

SessionKeyOf(r) ==
    build_session_key(call[r].platform, call[r].platform_user_id, call[r].channel_id)

\* bot_sessions_collection.find_one({"session_key": session_key})
SessionDocs(session_key) == {d \in bot_sessions : d.session_key = session_key}

\* faulty variant: the ownership filter "user_id" is left out of the query
ConvFound_any_owner(c, u) ==
    /\ c \in DOMAIN conversations
    /\ ~conversations[c].deleted

\* conversations_collection.find_one({"conversation_id": c, "user_id": u})
ConvFound(c, u) ==
    /\ c \in DOMAIN conversations
    /\ ~conversations[c].deleted
    /\ conversations[c].user_id = u

\* create_conversation_service(conversation, user): a new conversation document
\* owned by user["user_id"]
create_conversation_service(convs, conversation_id, user) ==
    convs @@ (conversation_id :> [user_id |-> user, deleted |-> FALSE, messages |-> <<>>])

\* faulty variant: insert_one instead of an upsert on the session key
UpsertSession_insert(docs, session_key, conversation_id) ==
    docs \cup {[session_key |-> session_key, conversation_id |-> conversation_id]}

\* bot_sessions_collection.update_one({"session_key": k}, {"$set": {..,
\* "conversation_id": c, ..}, "$setOnInsert": {..}}, upsert=True)
UpsertSession(docs, session_key, conversation_id) ==
    LET matching == {d \in docs : d.session_key = session_key}
        new == [session_key |-> session_key, conversation_id |-> conversation_id]
    IN  IF matching = {}
        THEN docs \cup {new}
        ELSE LET d == CHOOSE x \in matching : TRUE
             IN  (docs \ {d}) \cup {new}

\* bot_sessions_collection.delete_one({"session_key": k})
DeleteOneSession(docs, session_key) ==
    LET matching == {d \in docs : d.session_key = session_key}
    IN  IF matching = {} THEN docs
        ELSE docs \ {CHOOSE x \in matching : TRUE}

\* entry of get_or_create_session(platform, platform_user_id, channel_id, user)
StartCall(r, platform, platform_user_id, channel_id, user) ==
    [IdleCall EXCEPT !.pc = "find", !.platform = platform,
                     !.platform_user_id = platform_user_id,
                     !.channel_id = channel_id, !.user = user]

GetOrCreateSession(r, platform, platform_user_id, channel_id, user) ==
    /\ call[r].pc \in {"idle", "done"}
    /\ call' = [call EXCEPT ![r] =
                   StartCall(r, platform, platform_user_id, channel_id, user)]
    /\ UNCHANGED <<bot_sessions, conversations, next_uuid>>

\* the conversation a session key points at, NoConv when it has no session
PointedAt(docs, session_key) ==
    LET matching == {d \in docs : d.session_key = session_key}
    IN  IF matching = {} THEN NoConv
        ELSE (CHOOSE d \in matching : TRUE).conversation_id

\* faulty variant: reset_session without its delete_one
ResetSession_no_delete(r, platform, platform_user_id, channel_id, user) ==
    /\ call[r].pc \in {"idle", "done"}
    /\ call' = [call EXCEPT ![r] =
                   [StartCall(r, platform, platform_user_id, channel_id, user)
                       EXCEPT !.reset = TRUE,
                              !.before = PointedAt(bot_sessions,
                                  build_session_key(platform, platform_user_id,
                                                    channel_id))]]
    /\ UNCHANGED <<bot_sessions, conversations, next_uuid>>

\* reset_session: delete_one on the session key, then get_or_create_session;
\* the call remembers that it is a reset and what the deleted session pointed at
ResetSession(r, platform, platform_user_id, channel_id, user) ==
    /\ call[r].pc \in {"idle", "done"}
    /\ bot_sessions' = DeleteOneSession(bot_sessions,
           build_session_key(platform, platform_user_id, channel_id))
    /\ call' = [call EXCEPT ![r] =
                   [StartCall(r, platform, platform_user_id, channel_id, user)
                       EXCEPT !.reset = TRUE,
                              !.before = PointedAt(bot_sessions,
                                  build_session_key(platform, platform_user_id,
                                                    channel_id))]]
    /\ UNCHANGED <<conversations, next_uuid>>

\* existing = await bot_sessions_collection.find_one({"session_key": session_key})
FindSession(r) ==
    /\ call[r].pc = "find"
    /\ IF SessionDocs(SessionKeyOf(r)) = {}
       THEN call' = [call EXCEPT ![r].pc = "create"]
       ELSE \E existing \in SessionDocs(SessionKeyOf(r)) :
                call' = [call EXCEPT ![r].pc = "check",
                                     ![r].conv_id = existing.conversation_id]
    /\ UNCHANGED <<bot_sessions, conversations, next_uuid>>

\* faulty variant: the stored session is never reused: the early return is lost
CheckConversation_no_return(r) ==
    /\ call[r].pc = "check"
    /\ call' = [call EXCEPT ![r].pc = "create"]
    /\ UNCHANGED <<bot_sessions, conversations, next_uuid>>

\* conv = await conversations_collection.find_one({conversation_id, user_id});
\* if conv: return conv_id
CheckConversation(r) ==
    /\ call[r].pc = "check"
    /\ IF ConvFound(call[r].conv_id, call[r].user)
       THEN call' = [call EXCEPT ![r].pc = "done", ![r].res = call[r].conv_id,
                                 ![r].before = NoConv]
       ELSE call' = [call EXCEPT ![r].pc = "create"]
    /\ UNCHANGED <<bot_sessions, conversations, next_uuid>>

\* conversation_id = str(uuid4()); await create_conversation_service(conversation, user)
CreateConversation(r) ==
    /\ call[r].pc = "create"
    /\ next_uuid <= MaxConvs
    /\ LET conversation_id == uuid4
       IN  /\ conversations' =
                 create_conversation_service(conversations, conversation_id, call[r].user)
           /\ call' = [call EXCEPT ![r].pc = "upsert",
                                   ![r].conversation_id = conversation_id]
    /\ next_uuid' = next_uuid + 1
    /\ UNCHANGED bot_sessions

\* await bot_sessions_collection.update_one(..., upsert=True); return conversation_id
UpsertAndReturn(r) ==
    /\ call[r].pc = "upsert"
    /\ bot_sessions' =
           UpsertSession(bot_sessions, SessionKeyOf(r), call[r].conversation_id)
    /\ call' = [call EXCEPT ![r].pc = "done", ![r].res = call[r].conversation_id,
                            ![r].conversation_id = NoConv, ![r].before = NoConv]
    /\ UNCHANGED <<conversations, next_uuid>>

\* a conversation is deleted through the conversation API (outside the bot pipeline)
DeleteConversation(c) ==
    /\ c \in DOMAIN conversations
    /\ ~conversations[c].deleted
    /\ conversations' = [conversations EXCEPT ![c].deleted = TRUE]
    /\ UNCHANGED <<bot_sessions, next_uuid, call>>

\* a header, cache entry or payload that is not there (Python None for a dict)
Absent == [absent |-> TRUE]

\* bearer: what the Authorization header held; secret: settings.GAIA_BOT_API_KEY
IdleRequest ==
    [pc |-> "idle", bearer |-> "absent", payload |-> Absent, api_key |-> None,
     secret |-> None, platform |-> None,
     platform_user_id |-> None, user_info |-> None, via |-> None,
     authenticated |-> FALSE, bot_api_key_valid |-> FALSE, raised |-> FALSE]

AuthIdle ==
    /\ platform_links = [a \in Accounts |-> [p \in Platforms |-> None]]
    /\ cache = [k \in Platforms \X LinkIds |-> Absent]
    /\ now = 0
    /\ req = IdleRequest

\* no link_account call running
IdleLink == [pc |-> "idle", user_id |-> None, platform |-> None,
             platform_user_id |-> None, current_id |-> None, result |-> None]

LinkIdle == lk = [r \in Callers |-> IdleLink]

\* no provision_system_workflows call running
IdleProvision == [pc |-> "idle", user_id |-> None, integration_id |-> None,
                  todo |-> <<>>, found |-> {}, created |-> <<>>, notified |-> FALSE]

\* no system workflow stored, no provisioning running, nothing notified
\* no reset_system_workflow_to_default call running
IdleReset == [pc |-> "idle", workflow_id |-> None, user_id |-> None, key |-> None,
              old_trigger_ids |-> {}, trigger_name |-> None, new_trigger_ids |-> {},
              unregistered |-> {}, updated |-> FALSE, result |-> None]

WorkflowIdle ==
    /\ workflows = {}
    /\ pv = [r \in Callers |-> IdleProvision]
    /\ notifications = 0
    /\ triggers = {}
    /\ next_trigger = 1
    /\ rs = [r \in Callers |-> IdleReset]

\* the subsystems outside the bot endpoints at rest
\* the services of unified_startup followed here, and the follow-up step
Services == {"mongodb", "vfs", "tools_cache_warmup"}

TaskNames == {"startup_warmup"}

\* a task that was never spawned
NoTask == [state |-> "unspawned", service |-> [s \in Services |-> "pending"],
           after |-> "pending", must_cancel |-> FALSE]

\* the process before unified_startup
TaskIdle ==
    /\ background_tasks = <<>>
    /\ task = [t \in TaskNames |-> NoTask]
    /\ sd = "boot"
    /\ logged = {}

\* no text handed to the parsing utilities
TextIdle ==
    /\ command_str = <<>>
    /\ redirect = Absent
    /\ content = <<>>
    /\ frontmatter = Absent

RestIdle ==
    /\ WorkflowIdle
    /\ TaskIdle
    /\ TextIdle

\* the rate limiter at rest: store reachable, no key, no call running
NoExpiry == 0 - 1

IdleRl == [pc |-> "idle", platform |-> None, platform_user_id |-> None,
           count |-> 0, result |-> None]

RateIdle ==
    /\ redis = "up"
    /\ ratelimit = [count |-> 0, expires_at |-> NoExpiry]
    /\ clock = 0
    /\ rl = [r \in Callers |-> IdleRl]
    /\ admitted = 0

\* no bot_chat request being handled
IdleChat ==
    [pc |-> "idle", message |-> None, conversation_id |-> NoConv,
     history |-> <<>>, response_text |-> None, response |-> Absent]

StreamIdle ==
    /\ chat = IdleChat
    /\ gpc = "idle"
    /\ chat_conversation_id = NoConv
    /\ message = None
    /\ stream = <<>>
    /\ out = <<>>
    /\ complete_message = ""
    /\ update_calls = 0
    /\ exc = None

InitSession ==
    /\ bot_sessions = {}
    /\ conversations = <<>>
    /\ next_uuid = 1
    /\ call = [r \in Callers |-> IdleCall]
    /\ StreamIdle
    /\ AuthIdle
    /\ RateIdle
    /\ LinkIdle
    /\ RestIdle

NextSession ==
    \/ \E r \in Callers, p \in Platforms, u \in PlatformUserIds,
          c \in Channels, a \in Accounts :
          GetOrCreateSession(r, p, u, c, a) /\ UNCHANGED <<streamVars, authVars, rateVars, linkVars, restVars>>
    \/ \E r \in Callers, p \in Platforms, u \in PlatformUserIds,
          c \in Channels, a \in Accounts :
          ResetSession(r, p, u, c, a) /\ UNCHANGED <<streamVars, authVars, rateVars, linkVars, restVars>>
    \/ \E r \in Callers : FindSession(r) /\ UNCHANGED <<streamVars, authVars, rateVars, linkVars, restVars>>
    \/ \E r \in Callers : CheckConversation(r) /\ UNCHANGED <<streamVars, authVars, rateVars, linkVars, restVars>>
    \/ \E r \in Callers : CreateConversation(r) /\ UNCHANGED <<streamVars, authVars, rateVars, linkVars, restVars>>
    \/ \E r \in Callers : UpsertAndReturn(r) /\ UNCHANGED <<streamVars, authVars, rateVars, linkVars, restVars>>
    \/ \E c \in ConvIds : DeleteConversation(c) /\ UNCHANGED <<streamVars, authVars, rateVars, linkVars, restVars>>

SpecSession == InitSession /\ [][NextSession]_vars

-----------------------------------------------------------------------------
(* Stream relay: bot_chat_stream and event_generator, endpoints/bot.py *)

Messages == {"hello"}
Payloads == {"Hi ", "there", ""}
Errors == {"boom"}
ChatMessages == {"ping"}
ChatReplies == {"pong"}

\* A chunk of call_agent's stream: its framing prefix and either the JSON value
\* its text parses to ("json") or text that is no JSON ("raw").
DataChunk(obj) == [prefix |-> "data: ", json |-> obj]
DONE == [prefix |-> "data: ", raw |-> "[DONE]"]
MalformedData == [prefix |-> "data: ", raw |-> "{\"respo"]
CommentLine == [prefix |-> "", raw |-> ": keepalive"]
NostreamChunk(obj) == [prefix |-> "nostream: ", json |-> obj]
MalformedNostream == [prefix |-> "nostream: ", raw |-> "{\"comp"]

Chunks ==
    {DataChunk([response |-> p]) : p \in Payloads}
    \cup {DataChunk([error |-> e]) : e \in Errors}
    \cup {DataChunk([keepalive |-> TRUE])}
    \cup {DONE, MalformedData, CommentLine, MalformedNostream}
    \cup {NostreamChunk([complete_message |-> "whole"]), NostreamChunk([other |-> TRUE])}

\* json.loads succeeds on the chunk's text
JsonLoads(chunk) == "json" \in DOMAIN chunk

\* the events the generator yields: data: <json>\n\n
TextEvent(text) == [text |-> text]
ErrorEvent(e) == [error |-> e]
DoneEvent(cid) == [done |-> TRUE, conversation_id |-> cid]
RawDone == [raw |-> "[DONE]"]

\* update_messages(update_req, user): the user message and the bot message are
\* appended to the conversation
update_messages(convs, cid, user_text, bot_text) ==
    [convs EXCEPT ![cid].messages =
        @ \o <<[type |-> "user", response |-> user_text],
               [type |-> "bot", response |-> bot_text]>>]

\* a handler that resolves the session before it looks at the user
BotChatStream_session_first(platform, platform_user_id, channel_id, text, user) ==
    /\ gpc = "idle"
    /\ message' = text
    /\ gpc' = IF user = None THEN "auth_required" ELSE "call_agent"
    /\ bot_sessions' =
           bot_sessions \cup
               {[session_key |-> build_session_key(platform, platform_user_id, "anon"),
                 conversation_id |-> next_uuid]}
    /\ next_uuid' = next_uuid + 1
    /\ chat_conversation_id' = IF user = None THEN NoConv ELSE next_uuid
    /\ UNCHANGED <<stream, out, complete_message, update_calls, conversations, call, exc>>

\* bot_chat_stream up to the StreamingResponse: the account lookup and
\* get_or_create_session (here on a session that exists and is valid)
BotChatStream(platform, platform_user_id, channel_id, text, user) ==
    /\ gpc = "idle"
    /\ message' = text
    /\ IF user = None
       THEN /\ gpc' = "auth_required"
            /\ UNCHANGED chat_conversation_id
       ELSE /\ gpc' = "call_agent"
            /\ \E d \in SessionDocs(build_session_key(platform, platform_user_id,
                                                       channel_id)) :
                   /\ ConvFound(d.conversation_id, user)
                   /\ chat_conversation_id' = d.conversation_id
    /\ UNCHANGED <<stream, out, complete_message, update_calls,
                   conversations, bot_sessions, next_uuid, call, exc>>

\* auth_required(): yield the not_authenticated error
AuthRequiredError ==
    /\ gpc = "auth_required"
    /\ out' = Append(out, ErrorEvent("not_authenticated"))
    /\ gpc' = "auth_required_done"
    /\ UNCHANGED <<chat_conversation_id, message, stream, complete_message,
                   update_calls, conversations, bot_sessions, next_uuid, call, exc>>

\* auth_required(): yield "data: [DONE]\n\n"
AuthRequiredDone ==
    /\ gpc = "auth_required_done"
    /\ out' = Append(out, RawDone)
    /\ gpc' = "finished"
    /\ UNCHANGED <<chat_conversation_id, message, stream, complete_message,
                   update_calls, conversations, bot_sessions, next_uuid, call, exc>>

\* stream = await call_agent(...)
CallAgent ==
    /\ gpc = "call_agent"
    /\ gpc' = "iterate"
    /\ UNCHANGED <<chat_conversation_id, message, stream, out, complete_message,
                   update_calls, conversations, bot_sessions, next_uuid, call, exc>>

\* faulty variant: the generator returns after the error event
CatchException_return(e) ==
    /\ exc' = e
    /\ out' = Append(out, ErrorEvent(e))
    /\ gpc' = "finished"

\* except Exception as e: yield the error event
CatchException(e) ==
    /\ exc' = e
    /\ out' = Append(out, ErrorEvent(e))
    /\ gpc' = "yield_done"

\* call_agent raises
CallAgentRaises(e) ==
    /\ gpc = "call_agent"
    /\ CatchException(e)
    /\ UNCHANGED <<chat_conversation_id, message, stream, complete_message,
                   update_calls, conversations, bot_sessions, next_uuid, call>>

\* faulty variant: the [DONE] chunk is also translated inside the loop
OnChunk_forward_done(chunk) ==
    IF chunk = DONE
    THEN /\ gpc' = "yield_done"
         /\ out' = Append(out, DoneEvent(chat_conversation_id))
         /\ UNCHANGED <<complete_message, exc>>
    ELSE IF chunk.prefix = "data: " /\ JsonLoads(chunk) /\ "response" \in DOMAIN chunk.json
    THEN /\ complete_message' = complete_message \o chunk.json.response
         /\ out' = Append(out, TextEvent(chunk.json.response))
         /\ UNCHANGED <<gpc, exc>>
    ELSE UNCHANGED <<out, complete_message, gpc, exc>>

\* faulty variant: the accumulator is assigned, not appended to
OnChunk_assign(chunk) ==
    IF chunk = DONE
    THEN /\ gpc' = "yield_done"
         /\ UNCHANGED <<out, complete_message, exc>>
    ELSE IF chunk.prefix = "data: " /\ JsonLoads(chunk) /\ "response" \in DOMAIN chunk.json
    THEN /\ complete_message' = chunk.json.response
         /\ out' = Append(out, TextEvent(chunk.json.response))
         /\ UNCHANGED <<gpc, exc>>
    ELSE UNCHANGED <<out, complete_message, gpc, exc>>

\* faulty variant: a nostream summary is skipped without touching the accumulator
OnChunk_skip_summary(chunk) ==
    IF chunk.prefix = "nostream: "
    THEN IF JsonLoads(chunk)
         THEN UNCHANGED <<out, complete_message, gpc, exc>>
         ELSE /\ CatchException("JSONDecodeError")
              /\ UNCHANGED complete_message
    ELSE IF chunk = DONE
    THEN /\ gpc' = "yield_done"
         /\ UNCHANGED <<out, complete_message, exc>>
    ELSE IF chunk.prefix = "data: " /\ JsonLoads(chunk) /\ "response" \in DOMAIN chunk.json
    THEN /\ complete_message' = complete_message \o chunk.json.response
         /\ out' = Append(out, TextEvent(chunk.json.response))
         /\ UNCHANGED <<gpc, exc>>
    ELSE UNCHANGED <<out, complete_message, gpc, exc>>

\* faulty variant: a data event that is no JSON ends the loop with an error
OnChunk_malformed_raises(chunk) ==
    IF chunk.prefix = "nostream: "
    THEN IF JsonLoads(chunk)
         THEN /\ complete_message' =
                     IF "complete_message" \in DOMAIN chunk.json
                     THEN chunk.json.complete_message
                     ELSE complete_message
              /\ UNCHANGED <<out, gpc, exc>>
         ELSE /\ CatchException("JSONDecodeError")
              /\ UNCHANGED complete_message
    ELSE IF chunk.prefix = "data: "
    THEN IF chunk = DONE
         THEN /\ gpc' = "yield_done"
              /\ UNCHANGED <<out, complete_message, exc>>
         ELSE IF ~JsonLoads(chunk)
         THEN /\ CatchException("JSONDecodeError")
              /\ UNCHANGED complete_message
         ELSE IF "response" \in DOMAIN chunk.json
         THEN /\ complete_message' = complete_message \o chunk.json.response
              /\ out' = Append(out, TextEvent(chunk.json.response))
              /\ UNCHANGED <<gpc, exc>>
         ELSE UNCHANGED <<out, complete_message, gpc, exc>>
    ELSE UNCHANGED <<out, complete_message, gpc, exc>>

\* faulty variant: a nostream summary is also sent to the client as text
OnChunk_summary_forwarded(chunk) ==
    IF chunk.prefix = "nostream: "
    THEN IF JsonLoads(chunk)
         THEN IF "complete_message" \in DOMAIN chunk.json
              THEN /\ complete_message' = chunk.json.complete_message
                   /\ out' = Append(out, TextEvent(chunk.json.complete_message))
                   /\ UNCHANGED <<gpc, exc>>
              ELSE UNCHANGED <<out, complete_message, gpc, exc>>
         ELSE /\ CatchException("JSONDecodeError")
              /\ UNCHANGED complete_message
    ELSE IF chunk.prefix = "data: "
    THEN IF chunk = DONE
         THEN /\ gpc' = "yield_done"
              /\ UNCHANGED <<out, complete_message, exc>>
         ELSE IF JsonLoads(chunk) /\ "response" \in DOMAIN chunk.json
         THEN /\ complete_message' = complete_message \o chunk.json.response
              /\ out' = Append(out, TextEvent(chunk.json.response))
              /\ UNCHANGED <<gpc, exc>>
         ELSE UNCHANGED <<out, complete_message, gpc, exc>>
    ELSE UNCHANGED <<out, complete_message, gpc, exc>>

\* the body of "async for chunk in stream" for one chunk
OnChunk(chunk) ==
    IF chunk.prefix = "nostream: "
    THEN IF JsonLoads(chunk)
         THEN /\ complete_message' =
                     IF "complete_message" \in DOMAIN chunk.json
                     THEN chunk.json.complete_message
                     ELSE complete_message
              /\ UNCHANGED <<out, gpc, exc>>
         ELSE /\ CatchException("JSONDecodeError")
              /\ UNCHANGED complete_message
    ELSE IF chunk.prefix = "data: "
    THEN IF chunk = DONE
         THEN /\ gpc' = "yield_done"
              /\ UNCHANGED <<out, complete_message, exc>>
         ELSE IF JsonLoads(chunk) /\ "response" \in DOMAIN chunk.json
         THEN /\ complete_message' = complete_message \o chunk.json.response
              /\ out' = Append(out, TextEvent(chunk.json.response))
              /\ UNCHANGED <<gpc, exc>>
         ELSE UNCHANGED <<out, complete_message, gpc, exc>>
    ELSE UNCHANGED <<out, complete_message, gpc, exc>>

\* the stream delivers its next chunk
NextChunk(chunk) ==
    /\ gpc = "iterate"
    /\ Len(stream) < MaxChunks
    /\ stream' = Append(stream, chunk)
    /\ OnChunk(chunk)
    /\ UNCHANGED <<chat_conversation_id, message, update_calls,
                   conversations, bot_sessions, next_uuid, call>>

\* the stream is exhausted without a [DONE] chunk
StreamEnds ==
    /\ gpc = "iterate"
    /\ gpc' = "yield_done"
    /\ UNCHANGED <<chat_conversation_id, message, stream, out, complete_message,
                   update_calls, conversations, bot_sessions, next_uuid, call, exc>>

\* the stream raises while it is iterated
StreamRaises(e) ==
    /\ gpc = "iterate"
    /\ CatchException(e)
    /\ UNCHANGED <<chat_conversation_id, message, stream, complete_message,
                   update_calls, conversations, bot_sessions, next_uuid, call>>

\* yield the done event
YieldDone ==
    /\ gpc = "yield_done"
    /\ out' = Append(out, DoneEvent(chat_conversation_id))
    /\ gpc' = "after_done"
    /\ UNCHANGED <<chat_conversation_id, message, stream, complete_message,
                   update_calls, conversations, bot_sessions, next_uuid, call, exc>>

\* faulty variant: the messages are saved whatever the accumulator holds
StartPersist_unconditional ==
    /\ gpc = "after_done"
    /\ update_calls' = update_calls + 1
    /\ gpc' = "update_messages"
    /\ UNCHANGED <<chat_conversation_id, message, stream, out, complete_message,
                   conversations, bot_sessions, next_uuid, call, exc>>

\* if complete_message: ... await update_messages(update_req, user)
StartPersist ==
    /\ gpc = "after_done"
    /\ IF complete_message # ""
       THEN /\ update_calls' = update_calls + 1
            /\ gpc' = "update_messages"
       ELSE /\ gpc' = "finished"
            /\ UNCHANGED update_calls
    /\ UNCHANGED <<chat_conversation_id, message, stream, out, complete_message,
                   conversations, bot_sessions, next_uuid, call, exc>>

\* update_messages returns, or raises and the exception is logged
UpdateMessagesReturns(ok) ==
    /\ gpc = "update_messages"
    /\ conversations' =
           IF ok THEN update_messages(conversations, chat_conversation_id,
                                      message, complete_message)
           ELSE conversations
    /\ gpc' = "finished"
    /\ UNCHANGED <<chat_conversation_id, message, stream, out, complete_message,
                   update_calls, bot_sessions, next_uuid, call, exc>>

\* the client disconnects: the generator is cancelled where it is suspended;
\* a write that was in flight may or may not have been applied
ClientDisconnect(written) ==
    /\ gpc \in {"auth_required", "auth_required_done", "call_agent", "iterate",
                "yield_done", "after_done", "update_messages"}
    /\ written => gpc = "update_messages"
    /\ conversations' =
           IF written THEN update_messages(conversations, chat_conversation_id,
                                           message, complete_message)
           ELSE conversations
    /\ gpc' = "cancelled"
    /\ UNCHANGED <<chat_conversation_id, message, stream, out, complete_message,
                   update_calls, bot_sessions, next_uuid, call, exc>>

\* the messages argument of load_conversation_history's slice: messages[-20:]
HISTORY_LIMIT == 20

\* a stored message as a history entry; a type other than user or bot gives none
HistoryEntry(msg) ==
    [role |-> IF msg.type = "user" THEN "user" ELSE "assistant",
     content |-> msg.response]

\* faulty variant: the oldest messages are kept, not the most recent
load_conversation_history_oldest(convs, conversation_id, user_id) ==
    IF \/ conversation_id \notin DOMAIN convs
       \/ convs[conversation_id].deleted
       \/ convs[conversation_id].user_id # user_id
    THEN <<>>
    ELSE LET all == convs[conversation_id].messages
             messages == SubSeq(all, 1, IF Len(all) > HISTORY_LIMIT
                                        THEN HISTORY_LIMIT ELSE Len(all))
             kept == SelectSeq(messages, LAMBDA msg : msg.type \in {"user", "bot"})
         IN  [i \in 1..Len(kept) |-> HistoryEntry(kept[i])]

\* load_conversation_history(conversation_id, user_id): the last 20 stored
\* messages of the user's conversation, in stored order, as role/content
load_conversation_history(convs, conversation_id, user_id) ==
    IF \/ conversation_id \notin DOMAIN convs
       \/ convs[conversation_id].deleted
       \/ convs[conversation_id].user_id # user_id
    THEN <<>>
    ELSE LET all == convs[conversation_id].messages
             messages == SubSeq(all, IF Len(all) > HISTORY_LIMIT
                                     THEN Len(all) - HISTORY_LIMIT + 1 ELSE 1,
                                Len(all))
             kept == SelectSeq(messages, LAMBDA msg : msg.type \in {"user", "bot"})
         IN  [i \in 1..Len(kept) |-> HistoryEntry(kept[i])]

\* what bot_chat returns
BotChatResponse(response, conversation_id, authenticated) ==
    [response |-> response, conversation_id |-> conversation_id,
     authenticated |-> authenticated]

\* the stream variables bot_chat does not touch
NotChatVars ==
    <<gpc, chat_conversation_id, message, stream, out, complete_message,
      update_calls, exc, bot_sessions, next_uuid, call>>

\* bot_chat up to call_agent_silent: the account lookup,
\* get_or_create_session (here on a session that exists and is valid) and
\* load_conversation_history with the request's message appended
BotChat(platform, platform_user_id, channel_id, text, user) ==
    /\ chat.pc = "idle"
    /\ IF user = None
       THEN chat' = [chat EXCEPT !.pc = "returned", !.message = text,
                        !.response = BotChatResponse(
                            "Please authenticate first using /auth", "", FALSE)]
       ELSE \E d \in SessionDocs(build_session_key(platform, platform_user_id,
                                                    channel_id)) :
                /\ ConvFound(d.conversation_id, user)
                /\ chat' = [chat EXCEPT !.pc = "call_agent_silent", !.message = text,
                                        !.conversation_id = d.conversation_id,
                                        !.history =
                                            Append(load_conversation_history(
                                                       conversations,
                                                       d.conversation_id, user),
                                                   [role |-> "user",
                                                    content |-> text])]
    /\ UNCHANGED <<NotChatVars, conversations>>

\* response_text, _meta = await call_agent_silent(...); on an exception the
\* fixed apology is the response
CallAgentSilent(raised, text) ==
    /\ chat.pc = "call_agent_silent"
    /\ chat' = [chat EXCEPT !.pc = "update_messages",
                    !.response_text =
                        IF raised
                        THEN "An error occurred while processing your request."
                        ELSE text]
    /\ UNCHANGED <<NotChatVars, conversations>>

\* faulty variant: a failure of update_messages reaches the client
ChatUpdateMessages_propagate(ok) ==
    /\ chat.pc = "update_messages"
    /\ conversations' =
           IF ok THEN update_messages(conversations, chat.conversation_id,
                                      chat.message, chat.response_text)
           ELSE conversations
    /\ chat' = [chat EXCEPT !.pc = "returned",
                    !.response =
                        IF ok
                        THEN BotChatResponse(chat.response_text,
                                             chat.conversation_id, TRUE)
                        ELSE [status_code |-> 500]]
    /\ UNCHANGED NotChatVars

\* faulty variant: the request text and the reply change places in update_req
ChatUpdateMessages_swapped(ok) ==
    /\ chat.pc = "update_messages"
    /\ conversations' =
           IF ok THEN update_messages(conversations, chat.conversation_id,
                                      chat.response_text, chat.message)
           ELSE conversations
    /\ chat' = [chat EXCEPT !.pc = "returned",
                    !.response = BotChatResponse(chat.response_text,
                                                 chat.conversation_id, TRUE)]
    /\ UNCHANGED NotChatVars

\* try: await update_messages(update_req, user) except Exception: logged;
\* return BotChatResponse(response_text, conversation_id, authenticated=True)
ChatUpdateMessages(ok) ==
    /\ chat.pc = "update_messages"
    /\ conversations' =
           IF ok THEN update_messages(conversations, chat.conversation_id,
                                      chat.message, chat.response_text)
           ELSE conversations
    /\ chat' = [chat EXCEPT !.pc = "returned",
                    !.response = BotChatResponse(chat.response_text,
                                                 chat.conversation_id, TRUE)]
    /\ UNCHANGED NotChatVars

InitStream ==
    /\ bot_sessions = {[session_key |-> "discord:u1:dm", conversation_id |-> 1],
                       [session_key |-> "discord:u1:c1", conversation_id |-> 2]}
    /\ conversations =
           [c \in {1, 2} |-> [user_id |-> "A", deleted |-> FALSE, messages |-> <<>>]]
    /\ next_uuid = 3
    /\ call = [r \in Callers |-> IdleCall]
    /\ StreamIdle
    /\ AuthIdle
    /\ RateIdle
    /\ LinkIdle
    /\ RestIdle

NextStream ==
    \/ \E p \in Platforms, u \in PlatformUserIds, c \in Channels,
          m \in Messages, a \in {"A", None} :
          BotChatStream(p, u, c, m, a) /\ UNCHANGED <<authVars, rateVars, linkVars, restVars, chat>>
    \/ AuthRequiredError /\ UNCHANGED <<authVars, rateVars, linkVars, restVars, chat>>
    \/ AuthRequiredDone /\ UNCHANGED <<authVars, rateVars, linkVars, restVars, chat>>
    \/ CallAgent /\ UNCHANGED <<authVars, rateVars, linkVars, restVars, chat>>
    \/ \E e \in Errors : CallAgentRaises(e) /\ UNCHANGED <<authVars, rateVars, linkVars, restVars, chat>>
    \/ \E chunk \in Chunks : NextChunk(chunk) /\ UNCHANGED <<authVars, rateVars, linkVars, restVars, chat>>
    \/ StreamEnds /\ UNCHANGED <<authVars, rateVars, linkVars, restVars, chat>>
    \/ \E e \in Errors : StreamRaises(e) /\ UNCHANGED <<authVars, rateVars, linkVars, restVars, chat>>
    \/ YieldDone /\ UNCHANGED <<authVars, rateVars, linkVars, restVars, chat>>
    \/ StartPersist /\ UNCHANGED <<authVars, rateVars, linkVars, restVars, chat>>
    \/ \E ok \in BOOLEAN : UpdateMessagesReturns(ok) /\ UNCHANGED <<authVars, rateVars, linkVars, restVars, chat>>
    \/ \E written \in BOOLEAN : ClientDisconnect(written) /\ UNCHANGED <<authVars, rateVars, linkVars, restVars, chat>>

SpecStream == InitStream /\ [][NextStream]_vars

\* a chat-stream exchange next to a bot_chat exchange: the agent's stream is
\* drawn from ChatChunks
ChatChunks == {DataChunk([response |-> "Hi "]), DONE}


-----------------------------------------------------------------------------
(* Account linking, session tokens and BotAuthMiddleware *)

BOT_SESSION_TOKEN_EXPIRY_MINUTES == 15
TEN_MINUTES_TTL == 10

\* settings.BOT_SESSION_TOKEN_SECRET and settings.GAIA_BOT_API_KEY
BOT_SESSION_TOKEN_SECRET == "session-secret"
GAIA_BOT_API_KEY == "bot-api-key"

\* create_bot_session_token(user_id, platform, platform_user_id) signed at time iat
create_bot_session_token(user_id, platform, platform_user_id, iat) ==
    [sub |-> user_id, platform |-> platform, platform_user_id |-> platform_user_id,
     role |-> "bot", exp |-> iat + BOT_SESSION_TOKEN_EXPIRY_MINUTES,
     key |-> BOT_SESSION_TOKEN_SECRET]

\* faulty variant: the role claim is not looked at
TokenVerifies_any_role(token, time) ==
    /\ token.key = BOT_SESSION_TOKEN_SECRET
    /\ time <= token.exp

\* verify_bot_session_token: jwt.decode checks signature and expiry, then the role
TokenVerifies(token, time) ==
    /\ token.key = BOT_SESSION_TOKEN_SECRET
    /\ time <= token.exp
    /\ token.role = "bot"

\* verify_bot_session_token: the payload it returns
verify_bot_session_token(token) ==
    [user_id |-> token.sub, platform |-> token.platform,
     platform_user_id |-> token.platform_user_id]

\* tokens a client can hold: issued by create_bot_session_token a while ago
\* (expires during the run) or just now, and tokens that
\* create_bot_session_token did not produce (other key, other role)
IssueTimes == {TickMinutes - BOT_SESSION_TOKEN_EXPIRY_MINUTES, 0}

Tokens ==
    LET issued == {create_bot_session_token(a, p, id, iat) :
                      a \in Accounts, p \in Platforms, id \in LinkIds,
                      iat \in IssueTimes}
        fresh  == create_bot_session_token("A", "discord", "u1", 0)
    IN  issued \cup {[fresh EXCEPT !.key = "other-secret"],
                     [fresh EXCEPT !.role = "web"],
                     [fresh EXCEPT !.key = "malformed"]}

\* what a bearer token is, seen from outside the middleware
BearerKind(token, time) ==
    IF token = Absent THEN "absent"
    ELSE IF token.key = "malformed" THEN "malformed"
    ELSE IF token.key # BOT_SESSION_TOKEN_SECRET THEN "wrong_signature"
    ELSE IF time > token.exp THEN "expired"
    ELSE IF token.role # "bot" THEN "wrong_role"
    ELSE "good"

\* PlatformLinkService.get_user_by_platform_id: the accounts the query matches
LinkedAccounts(platform, platform_user_id) ==
    {a \in Accounts : platform_links[a][platform] = platform_user_id}

\* link_account: the value stored under platform_links.<platform>, a dict with
\* the id (username and display_name left out)
link_value(platform_user_id) == [id |-> platform_user_id]

\* the platform_links.<platform> field of an account document, if it has one
StoredLink(user_id, platform) ==
    IF platform_links[user_id][platform] = None THEN Absent
    ELSE link_value(platform_links[user_id][platform])

\* endpoints/bot.py get_user_by_platform_id: find_one({platform_links.<platform>:
\* platform_user_id}) matches a field that is this string (a field holding a
\* plain string being [value |-> s]), never a field that is a dict
get_user_by_platform_id(platform, platform_user_id) ==
    {a \in Accounts :
        LET stored == StoredLink(a, platform)
        IN  /\ stored # Absent
            /\ DOMAIN stored = {"value"}
            /\ stored.value = platform_user_id}

\* get_cache(key): the entry, unless its TTL has run out
get_cache(key) ==
    IF cache[key] # Absent /\ now < cache[key].expires_at THEN cache[key] ELSE Absent

\* set_cache(cache_key, user_info, ttl=TEN_MINUTES_TTL)
set_cache(key, user_id) ==
    [cache EXCEPT ![key] = [user_id |-> user_id, expires_at |-> now + TEN_MINUTES_TTL]]

\* PlatformLinkService.link_account(user_id, platform, platform_user_id), run
\* with no other link_account call overlapping it (overlapping calls: LinkStart,
\* LinkFindExisting, LinkFindUser, LinkUpdate)
LinkAccount(user_id, platform, platform_user_id) ==
    /\ \A existing \in LinkedAccounts(platform, platform_user_id) : existing = user_id
    /\ platform_links[user_id][platform] \in {None, platform_user_id}
    /\ platform_links' = [platform_links EXCEPT ![user_id][platform] = platform_user_id]
    /\ UNCHANGED <<cache, now, req>>

\* PlatformLinkService.unlink_account(user_id, platform)
UnlinkAccount(user_id, platform) ==
    /\ platform_links' = [platform_links EXCEPT ![user_id][platform] = None]
    /\ UNCHANGED <<cache, now, req>>

\* faulty variant: with no secret configured every key is accepted
verify_api_key_unset_accepts(api_key, bot_api_key) ==
    IF bot_api_key = None THEN TRUE ELSE api_key = bot_api_key

\* BotAuthMiddleware._verify_api_key, bot_api_key being settings.GAIA_BOT_API_KEY
verify_api_key(api_key, bot_api_key) ==
    IF bot_api_key = None THEN FALSE ELSE api_key = bot_api_key

\* verify_bot_api_key (endpoint dependency): 401 unless the key is the secret
verify_bot_api_key(x_bot_api_key, bot_api_key) ==
    IF bot_api_key = None \/ x_bot_api_key # bot_api_key THEN 401 ELSE 200

\* faulty variant: a request with the key but without platform headers is
\* given the first linked account
ApiKeyFallback_any_linked(r) ==
    IF verify_api_key(r.api_key, r.secret)
    THEN IF r.platform # None /\ r.platform_user_id # None
         THEN [r EXCEPT !.pc = "platform_get_cache"]
         ELSE [r EXCEPT !.pc = "done", !.bot_api_key_valid = TRUE,
                        !.authenticated = TRUE, !.user_info = "A"]
    ELSE [r EXCEPT !.pc = "done"]

\* dispatch, after the bearer token gave no user: X-Bot-API-Key and platform headers
ApiKeyFallback(r) ==
    IF r.api_key # None /\ verify_api_key(r.api_key, r.secret)
    THEN IF r.platform # None /\ r.platform_user_id # None
         THEN [r EXCEPT !.pc = "platform_get_cache"]
         ELSE [r EXCEPT !.pc = "done", !.bot_api_key_valid = TRUE]
    ELSE [r EXCEPT !.pc = "done"]

\* faulty variant: the JWTError leaves dispatch
OnJwtError_raise(r) == [r EXCEPT !.pc = "done", !.raised = TRUE]

\* except (JWTError, Exception): pass  -- then the API key path
OnJwtError(r) == ApiKeyFallback(r)

\* dispatch up to its first await: the Authorization header is read and the
\* token verified (a JWTError is swallowed), else the API key is checked
Dispatch(token, api_key, bot_api_key, platform, platform_user_id) ==
    /\ req.pc = "idle"
    /\ LET r == [IdleRequest EXCEPT !.bearer = BearerKind(token, now),
                                    !.api_key = api_key, !.secret = bot_api_key,
                                    !.platform = platform,
                                    !.platform_user_id = platform_user_id]
       IN  IF token = Absent
           THEN req' = ApiKeyFallback(r)
           ELSE IF TokenVerifies(token, now)
           THEN req' = [r EXCEPT !.pc = "jwt_get_cache",
                                 !.payload = verify_bot_session_token(token)]
           ELSE req' = OnJwtError(r)
    /\ UNCHANGED <<platform_links, cache, now>>

\* _authenticate_jwt / _authenticate_platform returned user_info: dispatch sets
\* request.state and calls the next handler
Authenticated(r, user_id, via) ==
    [r EXCEPT !.pc = "done", !.user_info = user_id, !.via = via,
              !.authenticated = TRUE,
              !.bot_api_key_valid = (via = "platform")]

CacheKey(platform, platform_user_id) == <<platform, platform_user_id>>

\* a cache test that, as on the platform path, takes any entry with a user id
JwtCacheHit_any_user(cached, user_id) == cached # Absent /\ cached.user_id # None

\* _authenticate_jwt: "if cached_user_info and cached_user_info.get('user_id') == user_id"
JwtCacheHit(cached, user_id) == cached # Absent /\ cached.user_id = user_id

\* _authenticate_jwt: cached_user_info = await get_cache(cache_key)
JwtGetCache ==
    /\ req.pc = "jwt_get_cache"
    /\ LET cached == get_cache(CacheKey(req.payload.platform,
                                        req.payload.platform_user_id))
       IN  IF JwtCacheHit(cached, req.payload.user_id)
           THEN req' = Authenticated(req, cached.user_id, "jwt")
           ELSE req' = [req EXCEPT !.pc = "jwt_db"]
    /\ UNCHANGED <<platform_links, cache, now>>

\* _authenticate_jwt: user_data = await get_user_by_platform_id(...); the checks on it
JwtDb ==
    /\ req.pc = "jwt_db"
    /\ LET found == LinkedAccounts(req.payload.platform, req.payload.platform_user_id)
       IN  IF found = {}
           THEN req' = ApiKeyFallback(req)
           ELSE \E user_data \in found :
                    IF user_data # req.payload.user_id
                    THEN req' = ApiKeyFallback(req)
                    ELSE req' = [req EXCEPT !.pc = "jwt_set_cache",
                                            !.user_info = user_data, !.via = "jwt"]
    /\ UNCHANGED <<platform_links, cache, now>>

\* _authenticate_jwt: await set_cache(cache_key, user_info, ttl); return user_info
JwtSetCache ==
    /\ req.pc = "jwt_set_cache"
    /\ cache' = set_cache(CacheKey(req.payload.platform, req.payload.platform_user_id),
                          req.user_info)
    /\ req' = Authenticated(req, req.user_info, "jwt")
    /\ UNCHANGED <<platform_links, now>>

\* _authenticate_platform: cached_user_info = await get_cache(cache_key)
PlatformGetCache ==
    /\ req.pc = "platform_get_cache"
    /\ LET cached == get_cache(CacheKey(req.platform, req.platform_user_id))
       IN  IF cached # Absent /\ cached.user_id # None
           THEN req' = Authenticated(req, cached.user_id, "platform")
           ELSE req' = [req EXCEPT !.pc = "platform_db"]
    /\ UNCHANGED <<platform_links, cache, now>>

\* _authenticate_platform: user_data = await get_user_by_platform_id(...)
PlatformDb ==
    /\ req.pc = "platform_db"
    /\ LET found == LinkedAccounts(req.platform, req.platform_user_id)
       IN  IF found = {}
           THEN req' = [req EXCEPT !.pc = "done", !.bot_api_key_valid = TRUE]
           ELSE \E user_data \in found :
                    req' = [req EXCEPT !.pc = "platform_set_cache",
                                       !.user_info = user_data, !.via = "platform"]
    /\ UNCHANGED <<platform_links, cache, now>>

\* _authenticate_platform: await set_cache(...); return user_info
PlatformSetCache ==
    /\ req.pc = "platform_set_cache"
    /\ cache' = set_cache(CacheKey(req.platform, req.platform_user_id), req.user_info)
    /\ req' = Authenticated(req, req.user_info, "platform")
    /\ UNCHANGED <<platform_links, now>>

\* response = await call_next(request); return response
CallNext ==
    /\ req.pc = "done"
    /\ req' = IdleRequest
    /\ UNCHANGED <<platform_links, cache, now>>

\* time passes
Tick ==
    /\ now + TickMinutes <= MaxTime
    /\ now' = now + TickMinutes
    /\ UNCHANGED <<platform_links, cache, req>>

OtherVars ==
    <<bot_sessions, conversations, next_uuid, call, streamVars, rateVars, linkVars, restVars>>

InitAuth ==
    /\ bot_sessions = {}
    /\ conversations = <<>>
    /\ next_uuid = 1
    /\ call = [r \in Callers |-> IdleCall]
    /\ StreamIdle
    /\ AuthIdle
    /\ RateIdle
    /\ LinkIdle
    /\ RestIdle

NextAuth ==
    \/ \E a \in Accounts, p \in Platforms, id \in LinkIds :
          LinkAccount(a, p, id) /\ UNCHANGED OtherVars
    \/ \E a \in Accounts, p \in Platforms :
          UnlinkAccount(a, p) /\ UNCHANGED OtherVars
    \/ \E token \in Tokens \cup {Absent},
          api_key \in {None, GAIA_BOT_API_KEY, "wrong-key"},
          bot_api_key \in {GAIA_BOT_API_KEY, None},
          p \in Platforms \cup {None}, id \in PlatformUserIds \cup {None} :
          Dispatch(token, api_key, bot_api_key, p, id) /\ UNCHANGED OtherVars
    \/ JwtGetCache /\ UNCHANGED OtherVars
    \/ JwtDb /\ UNCHANGED OtherVars
    \/ JwtSetCache /\ UNCHANGED OtherVars
    \/ PlatformGetCache /\ UNCHANGED OtherVars
    \/ PlatformDb /\ UNCHANGED OtherVars
    \/ PlatformSetCache /\ UNCHANGED OtherVars
    \/ CallNext /\ UNCHANGED OtherVars
    \/ Tick /\ UNCHANGED OtherVars

SpecAuth == InitAuth /\ [][NextAuth]_vars

-----------------------------------------------------------------------------
(* Rate limiter: BotService.enforce_rate_limit / _enforce_rate_limit *)

BOT_RATE_LIMIT == 20
BOT_RATE_WINDOW == 60

\* key = f"bot_ratelimit:{platform}:{platform_user_id}"
RateKey(platform, platform_user_id) ==
    "bot_ratelimit:" \o platform \o ":" \o platform_user_id

\* the value of the key as a Redis command sees it: gone once its expiry is reached
LiveCount ==
    IF ratelimit.expires_at # NoExpiry /\ clock >= ratelimit.expires_at
    THEN 0 ELSE ratelimit.count

\* faulty variant: the limit is compared with >=
OverLimit_at_limit(count) == count >= BOT_RATE_LIMIT

\* if count > BOT_RATE_LIMIT: raise HTTPException(429)
OverLimit(count) == count > BOT_RATE_LIMIT

\* faulty variant: the store's exception is re-raised
Swallow_reraise(r) == [r EXCEPT !.pc = "done", !.result = "raised"]

\* except Exception: pass  -- the request goes on
Swallow(r) == [r EXCEPT !.pc = "done", !.result = "admitted"]

\* the outcome of a call that holds a count
Decide(r, count) ==
    [r EXCEPT !.pc = "done", !.count = count,
              !.result = IF OverLimit(count) THEN "rejected_429" ELSE "admitted"]

\* enforce_rate_limit up to the return of "await redis.incr(key)"
Incr(r, platform, platform_user_id) ==
    /\ rl[r].pc \in {"idle", "done"}
    /\ LET c == [IdleRl EXCEPT !.platform = platform,
                               !.platform_user_id = platform_user_id]
       IN  IF redis = "none"
           THEN /\ rl' = [rl EXCEPT ![r] = [c EXCEPT !.pc = "done", !.result = "admitted"]]
                /\ UNCHANGED <<ratelimit, admitted>>
           ELSE IF redis = "down"
           THEN /\ rl' = [rl EXCEPT ![r] = Swallow(c)]
                /\ UNCHANGED <<ratelimit, admitted>>
           ELSE /\ LiveCount < MaxCount
                /\ LET count == LiveCount + 1
                   IN  /\ ratelimit' =
                              [count |-> count,
                               expires_at |-> IF count = 1 THEN NoExpiry
                                              ELSE ratelimit.expires_at]
                       /\ IF count = 1
                          THEN /\ rl' = [rl EXCEPT ![r] = [c EXCEPT !.pc = "expire",
                                                                    !.count = count]]
                               /\ admitted' = 0
                          ELSE /\ rl' = [rl EXCEPT ![r] = Decide(c, count)]
                               /\ admitted' = IF OverLimit(count) THEN admitted
                                              ELSE admitted + 1
    /\ UNCHANGED <<redis, clock>>

\* if count == 1: await redis.expire(key, BOT_RATE_WINDOW); then the comparison
Expire(r) ==
    /\ rl[r].pc = "expire"
    /\ IF redis = "up"
       THEN /\ ratelimit' =
                   IF LiveCount = 0 THEN ratelimit
                   ELSE [ratelimit EXCEPT !.expires_at = clock + BOT_RATE_WINDOW]
            /\ rl' = [rl EXCEPT ![r] = Decide(rl[r], rl[r].count)]
       ELSE /\ rl' = [rl EXCEPT ![r] = Swallow(rl[r])]
            /\ UNCHANGED ratelimit
    /\ admitted' = admitted + 1
    /\ UNCHANGED <<redis, clock>>

\* the counter store goes away or comes back
RedisChanges(state) ==
    /\ redis # state
    /\ redis' = state
    /\ UNCHANGED <<ratelimit, clock, rl, admitted>>

\* time passes
RateTick ==
    /\ clock + TickSeconds <= MaxSeconds
    /\ clock' = clock + TickSeconds
    /\ UNCHANGED <<redis, ratelimit, rl, admitted>>

NotRateVars ==
    <<bot_sessions, conversations, next_uuid, call, streamVars, authVars, linkVars, restVars>>

InitRate ==
    /\ bot_sessions = {}
    /\ conversations = <<>>
    /\ next_uuid = 1
    /\ call = [r \in Callers |-> IdleCall]
    /\ StreamIdle
    /\ AuthIdle
    /\ RateIdle
    /\ LinkIdle
    /\ RestIdle

NextRate ==
    \/ \E r \in Callers, p \in Platforms, u \in PlatformUserIds :
          Incr(r, p, u) /\ UNCHANGED NotRateVars
    \/ \E r \in Callers : Expire(r) /\ UNCHANGED NotRateVars
    \/ \E state \in {"up", "down", "none"} : RedisChanges(state) /\ UNCHANGED NotRateVars
    \/ RateTick /\ UNCHANGED NotRateVars

SpecRate == InitRate /\ [][NextRate]_vars

-----------------------------------------------------------------------------
(* Account linking under concurrent callers: PlatformLinkService.link_account *)

\* a user id no document of users_collection has
NoAccount == "Z"

\* link_account up to its first await: platform_user_id is stripped and must
\* not be empty
LinkStart(r, user_id, platform, platform_user_id) ==
    /\ lk[r].pc \in {"idle", "done"}
    /\ LET c == [IdleLink EXCEPT !.user_id = user_id, !.platform = platform,
                                 !.platform_user_id = platform_user_id]
       IN  lk' = [lk EXCEPT ![r] =
                     IF platform_user_id = ""
                     THEN [c EXCEPT !.pc = "done", !.result = "ValueError: empty"]
                     ELSE [c EXCEPT !.pc = "find_existing"]]
    /\ UNCHANGED <<platform_links, cache, now, req>>

\* existing = await users_collection.find_one({platform_links.<platform>.id: id});
\* reject if it is another user
LinkFindExisting(r) ==
    /\ lk[r].pc = "find_existing"
    /\ LET found == LinkedAccounts(lk[r].platform, lk[r].platform_user_id)
       IN  IF found = {}
           THEN lk' = [lk EXCEPT ![r].pc = "find_user"]
           ELSE \E existing \in found :
                    lk' = [lk EXCEPT ![r] =
                              IF existing # lk[r].user_id
                              THEN [@ EXCEPT !.pc = "done",
                                             !.result = "ValueError: linked to another user"]
                              ELSE [@ EXCEPT !.pc = "find_user"]]
    /\ UNCHANGED <<platform_links, cache, now, req>>

\* user.get("platform_links", {}).get(platform).get("id") of the user found,
\* None when there is no such user or no link
CurrentId(user_id, platform) ==
    IF user_id \in Accounts THEN platform_links[user_id][platform] ELSE None

\* a lookup of the user that rejects nothing
LinkFindUser_overwrite(r) ==
    /\ lk[r].pc = "find_user"
    /\ lk' = [lk EXCEPT ![r] =
                  [@ EXCEPT !.pc = "update",
                            !.current_id = CurrentId(lk[r].user_id, lk[r].platform)]]
    /\ UNCHANGED <<platform_links, cache, now, req>>

\* user = await users_collection.find_one({_id}); reject if the user already
\* has a different id stored for the platform
LinkFindUser(r) ==
    /\ lk[r].pc = "find_user"
    /\ LET current_id == CurrentId(lk[r].user_id, lk[r].platform)
       IN  lk' = [lk EXCEPT ![r] =
                     IF current_id # None /\ current_id # lk[r].platform_user_id
                     THEN [@ EXCEPT !.pc = "done", !.current_id = current_id,
                                    !.result = "ValueError: different account linked"]
                     ELSE [@ EXCEPT !.pc = "update", !.current_id = current_id]]
    /\ UNCHANGED <<platform_links, cache, now, req>>

\* await users_collection.update_one({_id}, {$set: {platform_links.<platform>: ...}})
\* matched_count == 0 when no document has the _id: "User not found"
LinkUpdate(r) ==
    /\ lk[r].pc = "update"
    /\ IF lk[r].user_id \in Accounts
       THEN /\ platform_links' =
                   [platform_links EXCEPT ![lk[r].user_id][lk[r].platform] =
                                              lk[r].platform_user_id]
            /\ lk' = [lk EXCEPT ![r].pc = "done", ![r].result = "linked"]
       ELSE /\ UNCHANGED platform_links
            /\ lk' = [lk EXCEPT ![r].pc = "done",
                                ![r].result = "ValueError: User not found"]
    /\ UNCHANGED <<cache, now, req>>

NotLinkVars ==
    <<bot_sessions, conversations, next_uuid, call, streamVars, rateVars, restVars>>

InitLink ==
    /\ bot_sessions = {}
    /\ conversations = <<>>
    /\ next_uuid = 1
    /\ call = [r \in Callers |-> IdleCall]
    /\ StreamIdle
    /\ AuthIdle
    /\ RateIdle
    /\ LinkIdle
    /\ RestIdle

NextLink ==
    \/ \E r \in Callers, a \in Accounts \cup {NoAccount}, p \in Platforms,
          id \in LinkIds \cup {""} :
          LinkStart(r, a, p, id) /\ UNCHANGED NotLinkVars
    \/ \E r \in Callers : LinkFindExisting(r) /\ UNCHANGED NotLinkVars
    \/ \E r \in Callers : LinkFindUser(r) /\ UNCHANGED NotLinkVars
    \/ \E r \in Callers : LinkUpdate(r) /\ UNCHANGED NotLinkVars
    \/ \E a \in Accounts, p \in Platforms :
          UnlinkAccount(a, p) /\ UNCHANGED <<NotLinkVars, lk>>

SpecLink == InitLink /\ [][NextLink]_vars

-----------------------------------------------------------------------------
(* The chat handlers behind their rate limiter: bot_chat, bot_chat_stream *)

\* _enforce_rate_limit as the first statement of a handler: the count INCR returns
GateCount == LiveCount + 1

\* _enforce_rate_limit raises HTTPException(429)
GateRejects == redis = "up" /\ OverLimit(GateCount)

\* _enforce_rate_limit: INCR, and EXPIRE when the key was created
GateCounts ==
    /\ ratelimit' =
           IF redis = "up"
           THEN [count |-> GateCount,
                 expires_at |-> IF GateCount = 1 THEN clock + BOT_RATE_WINDOW
                                ELSE ratelimit.expires_at]
           ELSE ratelimit
    /\ UNCHANGED <<redis, clock, rl, admitted>>

\* faulty variant: bot_chat resolves the account and the session before the gate
GatedBotChat_gate_last(platform, platform_user_id, channel_id, text, user) ==
    /\ GateCounts
    /\ IF GateRejects /\ user # None
       THEN /\ chat.pc = "idle"
            /\ \E d \in SessionDocs(build_session_key(platform, platform_user_id,
                                                        channel_id)) :
                   chat' = [chat EXCEPT !.pc = "rejected",
                                        !.conversation_id = d.conversation_id,
                                        !.response = [status_code |-> 429]]
            /\ UNCHANGED <<NotChatVars, conversations>>
       ELSE BotChat(platform, platform_user_id, channel_id, text, user)

\* bot_chat: await _enforce_rate_limit(...) first, then the rest of the handler
GatedBotChat(platform, platform_user_id, channel_id, text, user) ==
    /\ GateCounts
    /\ IF GateRejects
       THEN /\ chat.pc = "idle"
            /\ chat' = [chat EXCEPT !.pc = "rejected",
                                    !.response = [status_code |-> 429]]
            /\ UNCHANGED <<NotChatVars, conversations>>
       ELSE BotChat(platform, platform_user_id, channel_id, text, user)

\* bot_chat_stream: await _enforce_rate_limit(...) first, then the rest
GatedBotChatStream(platform, platform_user_id, channel_id, text, user) ==
    /\ GateCounts
    /\ IF GateRejects
       THEN /\ gpc = "idle"
            /\ gpc' = "rejected"
            /\ UNCHANGED <<chat_conversation_id, message, stream, out,
                           complete_message, update_calls, conversations,
                           bot_sessions, next_uuid, call, exc>>
       ELSE BotChatStream(platform, platform_user_id, channel_id, text, user)

\* the log of a conversation after ten earlier exchanges
OlderMessages ==
    [i \in 1..HISTORY_LIMIT |->
        [type |-> IF i % 2 = 1 THEN "user" ELSE "bot", response |-> ToString(i)]]

\* the sessions of InitStream, the second conversation new or with ten earlier
\* exchanges; the counter key is new or already at the limit
InitChat ==
    /\ bot_sessions = {[session_key |-> "discord:u1:dm", conversation_id |-> 1],
                       [session_key |-> "discord:u1:c1", conversation_id |-> 2]}
    /\ \E earlier \in {<<>>, OlderMessages} :
           conversations =
               [c \in {1, 2} |-> [user_id |-> "A", deleted |-> FALSE,
                                  messages |-> IF c = 2 THEN earlier ELSE <<>>]]
    /\ next_uuid = 3
    /\ call = [r \in Callers |-> IdleCall]
    /\ StreamIdle
    /\ AuthIdle
    /\ LinkIdle
    /\ RestIdle
    /\ redis \in {"up", "down"}
    /\ ratelimit \in {[count |-> 0, expires_at |-> NoExpiry],
                      [count |-> BOT_RATE_LIMIT, expires_at |-> BOT_RATE_WINDOW]}
    /\ clock = 0
    /\ rl = [r \in Callers |-> IdleRl]
    /\ admitted = 0

NextChat ==
    \/ \E p \in Platforms, u \in PlatformUserIds, c \in Channels,
          m \in Messages, a \in {"A", None} :
          GatedBotChatStream(p, u, c, m, a) /\ UNCHANGED <<authVars, linkVars, restVars, chat>>
    \/ AuthRequiredError /\ UNCHANGED <<authVars, rateVars, linkVars, restVars, chat>>
    \/ AuthRequiredDone /\ UNCHANGED <<authVars, rateVars, linkVars, restVars, chat>>
    \/ CallAgent /\ UNCHANGED <<authVars, rateVars, linkVars, restVars, chat>>
    \/ \E e \in Errors : CallAgentRaises(e) /\ UNCHANGED <<authVars, rateVars, linkVars, restVars, chat>>
    \/ \E chunk \in ChatChunks : NextChunk(chunk) /\ UNCHANGED <<authVars, rateVars, linkVars, restVars, chat>>
    \/ StreamEnds /\ UNCHANGED <<authVars, rateVars, linkVars, restVars, chat>>
    \/ \E e \in Errors : StreamRaises(e) /\ UNCHANGED <<authVars, rateVars, linkVars, restVars, chat>>
    \/ YieldDone /\ UNCHANGED <<authVars, rateVars, linkVars, restVars, chat>>
    \/ StartPersist /\ UNCHANGED <<authVars, rateVars, linkVars, restVars, chat>>
    \/ \E ok \in BOOLEAN : UpdateMessagesReturns(ok) /\ UNCHANGED <<authVars, rateVars, linkVars, restVars, chat>>
    \/ \E written \in BOOLEAN : ClientDisconnect(written) /\ UNCHANGED <<authVars, rateVars, linkVars, restVars, chat>>
    \/ \E p \in Platforms, u \in PlatformUserIds, c \in Channels,
          m \in ChatMessages, a \in {"A", None} :
          GatedBotChat(p, u, c, m, a) /\ UNCHANGED <<authVars, linkVars, restVars>>
    \/ \E raised \in BOOLEAN, text \in ChatReplies :
          CallAgentSilent(raised, text) /\ UNCHANGED <<authVars, rateVars, linkVars, restVars>>
    \/ \E ok \in BOOLEAN : ChatUpdateMessages(ok) /\ UNCHANGED <<authVars, rateVars, linkVars, restVars>>

SpecChat == InitChat /\ [][NextChat]_vars

-----------------------------------------------------------------------------
(* System workflows: provision_system_workflows, provisioner.py *)

GMAIL_SYSTEM_WORKFLOWS == <<"gmail:email_intelligence", "gmail:smart_reply_drafts">>

CALENDAR_SYSTEM_WORKFLOWS == <<"calendar:meeting_prep", "calendar:meeting_reminder">>

\* the integrations connected here: one with system workflows, one without
\* ("googlecalendar" is provisioned exactly as "gmail" is)
Integrations == {"gmail", "notion"}

\* SYSTEM_WORKFLOWS_BY_INTEGRATION.get(integration_id): the keys, in order
SYSTEM_WORKFLOWS_BY_INTEGRATION(integration_id) ==
    CASE integration_id = "gmail" -> GMAIL_SYSTEM_WORKFLOWS
      [] integration_id = "googlecalendar" -> CALENDAR_SYSTEM_WORKFLOWS
      [] OTHER -> <<>>

SystemWorkflowKeys ==
    {GMAIL_SYSTEM_WORKFLOWS[i] : i \in 1..Len(GMAIL_SYSTEM_WORKFLOWS)}
        \cup {CALENDAR_SYSTEM_WORKFLOWS[i] : i \in 1..Len(CALENDAR_SYSTEM_WORKFLOWS)}

DuplicateKeyError == "DuplicateKeyError"

\* trigger_config.trigger_name of the definition registered under a key; every
\* definition has an INTEGRATION trigger with a name
TriggerNameOf(key) ==
    IF key \in {"gmail:email_intelligence", "gmail:smart_reply_drafts"}
    THEN "gmail_poll_inbox"
    ELSE "calendar_event_starting_soon"

\* the document a factory's request is stored as, with the definition's
\* content and the triggers registered for it
WorkflowDoc(id, user_id, key, trigger_ids) ==
    [_id |-> id, user_id |-> user_id, system_workflow_key |-> key,
     is_system_workflow |-> TRUE, content |-> "default",
     trigger_name |-> TriggerNameOf(key), composio_trigger_ids |-> trigger_ids]

\* workflows_collection.find_one({user_id, system_workflow_key, is_system_workflow})
SystemWorkflowExists(docs, user_id, key) ==
    \E d \in docs : /\ d.user_id = user_id
                    /\ d.system_workflow_key = key
                    /\ d.is_system_workflow

\* the _id of an inserted document: fresh among the user's documents of the key
NewWorkflowId(docs, key, user_id) ==
    <<user_id, key,
      Cardinality({d \in docs : d.user_id = user_id /\ d.system_workflow_key = key}) + 1>>

\* an insert into a collection without a unique index on
\* (user_id, system_workflow_key)
create_workflow_no_index(docs, key, user_id) ==
    [raised |-> None,
     docs |-> docs \cup {WorkflowDoc(NewWorkflowId(docs, key, user_id), user_id, key, {})}]

\* WorkflowService.create_workflow: the insert, refused with DuplicateKeyError
\* by the collection's unique index on (user_id, system_workflow_key)
create_workflow(docs, key, user_id) ==
    IF \E d \in docs : d.user_id = user_id /\ d.system_workflow_key = key
    THEN [raised |-> DuplicateKeyError, docs |-> docs]
    ELSE [raised |-> None,
          docs |-> docs \cup {WorkflowDoc(NewWorkflowId(docs, key, user_id), user_id, key, {})}]

\* the loop moves to the next entry, or leaves the loop
NextEntry(c) ==
    [c EXCEPT !.todo = Tail(c.todo),
              !.pc = IF Tail(c.todo) = <<>> THEN "notify" ELSE "find_one"]

\* provision_system_workflows up to the loop: no entries, return
ProvisionStart(r, user_id, integration_id) ==
    LET entries == SYSTEM_WORKFLOWS_BY_INTEGRATION(integration_id)
        c == [IdleProvision EXCEPT !.user_id = user_id,
                                   !.integration_id = integration_id]
    IN  /\ pv[r].pc \in {"idle", "done"}
        /\ pv' = [pv EXCEPT ![r] =
                      IF entries = <<>>
                      THEN [c EXCEPT !.pc = "done"]
                      ELSE [c EXCEPT !.pc = "find_one", !.todo = entries]]
        /\ UNCHANGED <<workflows, notifications, triggers, next_trigger, rs>>

\* the idempotency check of one entry: "continue" when the key exists
ProvisionFindOne(r) ==
    LET c == pv[r]
        key == Head(c.todo)
    IN  /\ c.pc = "find_one"
        /\ pv' = [pv EXCEPT ![r] =
                      IF SystemWorkflowExists(workflows, c.user_id, key)
                      THEN NextEntry([c EXCEPT !.found = c.found \cup {key}])
                      ELSE [c EXCEPT !.pc = "create"]]
        /\ UNCHANGED <<workflows, notifications, triggers, next_trigger, rs>>

\* the try block of one entry: create_workflow stores the workflow, or raises
\* DuplicateKeyError, or raises another exception; both are logged
ProvisionCreate(r, raises) ==
    LET c == pv[r]
        key == Head(c.todo)
        stored == create_workflow(workflows, key, c.user_id)
    IN  /\ c.pc = "create"
        /\ IF raises \/ stored.raised = DuplicateKeyError
           THEN /\ pv' = [pv EXCEPT ![r] = NextEntry(c)]
                /\ UNCHANGED workflows
           ELSE /\ workflows' = stored.docs
                /\ pv' = [pv EXCEPT ![r] =
                              NextEntry([c EXCEPT !.created = Append(c.created, key)])]
        /\ UNCHANGED <<notifications, triggers, next_trigger, rs>>

\* "if created: await _notify_workflows_provisioned(...)", whose own failure is
\* logged inside the helper
ProvisionNotify(r, sent) ==
    LET c == pv[r]
    IN  /\ c.pc = "notify"
        /\ IF c.created # <<>>
           THEN /\ pv' = [pv EXCEPT ![r] = [c EXCEPT !.pc = "done", !.notified = TRUE]]
                /\ notifications' = IF sent THEN notifications + 1 ELSE notifications
           ELSE /\ pv' = [pv EXCEPT ![r] = [c EXCEPT !.pc = "done"]]
                /\ UNCHANGED notifications
        /\ UNCHANGED <<workflows, triggers, next_trigger, rs>>

NotWorkflowVars ==
    <<bot_sessions, conversations, next_uuid, call, streamVars, authVars, rateVars,
      linkVars, taskVars, textVars>>

InitProvision ==
    /\ bot_sessions = {}
    /\ conversations = <<>>
    /\ next_uuid = 1
    /\ call = [r \in Callers |-> IdleCall]
    /\ StreamIdle
    /\ AuthIdle
    /\ RateIdle
    /\ LinkIdle
    /\ RestIdle

NextProvision ==
    \/ \E r \in Callers, a \in Accounts, i \in Integrations :
          ProvisionStart(r, a, i) /\ UNCHANGED NotWorkflowVars
    \/ \E r \in Callers : ProvisionFindOne(r) /\ UNCHANGED NotWorkflowVars
    \/ \E r \in Callers, raises \in BOOLEAN :
          ProvisionCreate(r, raises) /\ UNCHANGED NotWorkflowVars
    \/ \E r \in Callers, sent \in BOOLEAN :
          ProvisionNotify(r, sent) /\ UNCHANGED NotWorkflowVars

SpecProvision == InitProvision /\ [][NextProvision]_vars

-----------------------------------------------------------------------------
(* System workflows: reset_system_workflow_to_default, provisioner.py *)

MaxTriggers == 4

\* SYSTEM_WORKFLOW_REGISTRY.get(key): is there a definition for the key
InRegistry(key) == key \in SystemWorkflowKeys

\* the documents reset is called on: A's edited system workflow with its
\* trigger, and a workflow A wrote
EditedSystemWorkflow(trigger_ids) ==
    [WorkflowDoc(<<"A", "gmail:email_intelligence", 1>>, "A",
                 "gmail:email_intelligence", trigger_ids)
         EXCEPT !.content = "edited"]

UserWorkflow ==
    [_id |-> <<"A", None, 1>>, user_id |-> "A", system_workflow_key |-> None,
     is_system_workflow |-> FALSE, content |-> "edited",
     trigger_name |-> None, composio_trigger_ids |-> {}]

WorkflowIds ==
    {<<"A", "gmail:email_intelligence", 1>>, <<"A", None, 1>>,
     <<"B", "gmail:email_intelligence", 1>>}

\* find_one({"_id": workflow_id, "user_id": user_id, "is_system_workflow": True})
FindSystemWorkflow(docs, workflow_id, user_id) ==
    {d \in docs : d._id = workflow_id /\ d.user_id = user_id /\ d.is_system_workflow}

\* the call returns
ResetReturn(c, result) == [c EXCEPT !.pc = "done", !.result = result]

\* reset_system_workflow_to_default up to the registration: the document and
\* its definition are looked up, the old trigger ids and trigger name read
ResetStart(r, workflow_id, user_id) ==
    LET found == FindSystemWorkflow(workflows, workflow_id, user_id)
        c == [IdleReset EXCEPT !.workflow_id = workflow_id, !.user_id = user_id]
    IN  /\ rs[r].pc \in {"idle", "done"}
        /\ rs' = [rs EXCEPT ![r] =
               IF found = {}
               THEN ResetReturn(c, FALSE)
               ELSE LET existing == CHOOSE d \in found : TRUE
                    IN  IF ~InRegistry(existing.system_workflow_key)
                        THEN ResetReturn(c, FALSE)
                        ELSE [c EXCEPT !.pc = "register",
                                       !.key = existing.system_workflow_key,
                                       !.old_trigger_ids = existing.composio_trigger_ids,
                                       !.trigger_name = existing.trigger_name]]
        /\ UNCHANGED <<workflows, pv, notifications, triggers, next_trigger>>

\* a registration that lets the reset continue when it returned nothing
ResetRegister_ignore_empty(r, outcome) ==
    LET c == rs[r]
    IN  /\ c.pc = "register"
        /\ outcome = "registered" => next_trigger <= MaxTriggers
        /\ IF outcome = "raises"
           THEN /\ rs' = [rs EXCEPT ![r] = ResetReturn(c, FALSE)]
                /\ UNCHANGED <<triggers, next_trigger>>
           ELSE IF outcome = "empty"
           THEN /\ rs' = [rs EXCEPT ![r] = [c EXCEPT !.pc = "unregister"]]
                /\ UNCHANGED <<triggers, next_trigger>>
           ELSE /\ triggers' = triggers \cup {next_trigger}
                /\ next_trigger' = next_trigger + 1
                /\ rs' = [rs EXCEPT ![r] = [c EXCEPT !.pc = "unregister",
                                                     !.new_trigger_ids = {next_trigger}]]
        /\ UNCHANGED <<workflows, pv, notifications>>

\* "Register fresh triggers FIRST": TriggerService.register_triggers raises,
\* returns an empty list, or registers a trigger and returns its id; the
\* first two abort the reset with False
ResetRegister(r, outcome) ==
    LET c == rs[r]
    IN  /\ c.pc = "register"
        /\ outcome = "registered" => next_trigger <= MaxTriggers
        /\ IF outcome \in {"raises", "empty"}
           THEN /\ rs' = [rs EXCEPT ![r] = ResetReturn(c, FALSE)]
                /\ UNCHANGED <<triggers, next_trigger>>
           ELSE /\ triggers' = triggers \cup {next_trigger}
                /\ next_trigger' = next_trigger + 1
                /\ rs' = [rs EXCEPT ![r] = [c EXCEPT !.pc = "unregister",
                                                     !.new_trigger_ids = {next_trigger}]]
        /\ UNCHANGED <<workflows, pv, notifications>>

\* "Only unregister old triggers AFTER new ones are confirmed registered":
\* unregister_triggers removes the old ids, or raises, which is logged
ResetUnregister(r, raises) ==
    LET c == rs[r]
    IN  /\ c.pc = "unregister"
        /\ IF c.old_trigger_ids # {} /\ c.trigger_name # None /\ ~raises
           THEN /\ triggers' = triggers \ c.old_trigger_ids
                /\ rs' = [rs EXCEPT ![r] = [c EXCEPT !.pc = "update",
                                                     !.unregistered = c.old_trigger_ids]]
           ELSE /\ rs' = [rs EXCEPT ![r] = [c EXCEPT !.pc = "update"]]
                /\ UNCHANGED triggers
        /\ UNCHANGED <<workflows, pv, notifications, next_trigger>>

\* update_one({"_id": workflow_id}, {"$set": ...}) with the definition's
\* content and the new trigger ids, then return True
ResetUpdate(r) ==
    LET c == rs[r]
    IN  /\ c.pc = "update"
        /\ workflows' =
               {IF d._id = c.workflow_id
                THEN [d EXCEPT !.content = "default",
                               !.trigger_name = TriggerNameOf(c.key),
                               !.composio_trigger_ids = c.new_trigger_ids]
                ELSE d : d \in workflows}
        /\ rs' = [rs EXCEPT ![r] = ResetReturn([c EXCEPT !.updated = TRUE], TRUE)]
        /\ UNCHANGED <<pv, notifications, triggers, next_trigger>>

\* the user edits the system workflow again
EditWorkflow(workflow_id) ==
    /\ \E d \in workflows : d._id = workflow_id /\ d.content = "default"
    /\ workflows' = {IF d._id = workflow_id THEN [d EXCEPT !.content = "edited"] ELSE d :
                        d \in workflows}
    /\ UNCHANGED <<pv, notifications, triggers, next_trigger, rs>>

InitReset ==
    /\ bot_sessions = {}
    /\ conversations = <<>>
    /\ next_uuid = 1
    /\ call = [r \in Callers |-> IdleCall]
    /\ StreamIdle
    /\ AuthIdle
    /\ RateIdle
    /\ LinkIdle
    /\ \E old \in {{}, {1}} :
           /\ workflows = {EditedSystemWorkflow(old), UserWorkflow}
           /\ triggers = old
    /\ next_trigger = 2
    /\ pv = [r \in Callers |-> IdleProvision]
    /\ notifications = 0
    /\ rs = [r \in Callers |-> IdleReset]
    /\ TaskIdle
    /\ TextIdle

NextReset ==
    \/ \E r \in Callers, w \in WorkflowIds, a \in Accounts :
          ResetStart(r, w, a) /\ UNCHANGED NotWorkflowVars
    \/ \E r \in Callers, outcome \in {"raises", "empty", "registered"} :
          ResetRegister(r, outcome) /\ UNCHANGED NotWorkflowVars
    \/ \E r \in Callers, raises \in BOOLEAN :
          ResetUnregister(r, raises) /\ UNCHANGED NotWorkflowVars
    \/ \E r \in Callers : ResetUpdate(r) /\ UNCHANGED NotWorkflowVars
    \/ \E w \in WorkflowIds : EditWorkflow(w) /\ UNCHANGED NotWorkflowVars

SpecReset == InitReset /\ [][NextReset]_vars

-----------------------------------------------------------------------------
(* Background warmup tasks: provider_registration.py *)

\* task.done()
Done(t) == task[t].state \in {"finished", "cancelled"}

\* the names in the registry
Registered == {background_tasks[i] : i \in 1..Len(background_tasks)}

\* unified_startup: in production the services are scheduled in one task by
\* _spawn_background_services -> _spawn_background_task (create_task, append);
\* otherwise they are awaited inline and no task exists
UnifiedStartup(production) ==
    /\ sd = "boot"
    /\ sd' = "serving"
    /\ IF production
       THEN /\ task' = [task EXCEPT !["startup_warmup"].state = "scheduled"]
            /\ background_tasks' = Append(background_tasks, "startup_warmup")
       ELSE UNCHANGED <<task, background_tasks>>
    /\ UNCHANGED logged

\* _runner / _run_all start: every service coroutine is created and gathered
RunAll(t) ==
    /\ task[t].state = "scheduled"
    /\ ~task[t].must_cancel
    /\ task' = [task EXCEPT ![t].state = "gather",
                            ![t].service = [s \in Services |-> "running"]]
    /\ UNCHANGED <<background_tasks, sd, logged>>

\* one service coroutine returns or raises
ServiceReturns(t, s, ok) ==
    /\ task[t].state = "gather"
    /\ task[t].service[s] = "running"
    /\ task' = [task EXCEPT ![t].service[s] = IF ok THEN "ok" ELSE "failed"]
    /\ UNCHANGED <<background_tasks, sd, logged>>

\* a gather without return_exceptions: the first failure leaves _run_all and
\* is logged by _runner, the follow-up is never started
GatherReturns_propagate(t) ==
    /\ task[t].state = "gather"
    /\ ~task[t].must_cancel
    /\ \/ \A s \in Services : task[t].service[s] = "ok"
       \/ \E s \in Services : task[t].service[s] = "failed"
    /\ IF \E s \in Services : task[t].service[s] = "failed"
       THEN /\ logged' = logged \cup {t}
            /\ task' = [task EXCEPT ![t].state = "finished"]
       ELSE /\ UNCHANGED logged
            /\ task' = [task EXCEPT ![t].state = "after", ![t].after = "running"]
    /\ UNCHANGED <<background_tasks, sd>>

\* asyncio.gather(*startup_tasks, return_exceptions=True) returns when every
\* service is done; each exception among the results is logged, then the
\* follow-up step is started
GatherReturns(t) ==
    /\ task[t].state = "gather"
    /\ ~task[t].must_cancel
    /\ \A s \in Services : task[t].service[s] \in {"ok", "failed"}
    /\ logged' = logged \cup {s \in Services : task[t].service[s] = "failed"}
    /\ task' = [task EXCEPT ![t].state = "after", ![t].after = "running"]
    /\ UNCHANGED <<background_tasks, sd>>

\* "await after()" returns or raises; an exception is logged and the task ends
AfterReturns(t, ok) ==
    /\ task[t].state = "after"
    /\ ~task[t].must_cancel
    /\ task' = [task EXCEPT ![t].state = "finished",
                            ![t].after = IF ok THEN "ok" ELSE "failed"]
    /\ logged' = IF ok THEN logged ELSE logged \cup {"lazy_providers_warmup_all"}
    /\ UNCHANGED <<background_tasks, sd>>

\* the CancelledError requested by task.cancel() is thrown into the task: the
\* gather cancels the services still running, _runner logs and re-raises
TaskCancelled(t) ==
    /\ task[t].must_cancel
    /\ ~Done(t)
    /\ task' = [task EXCEPT
           ![t].state = "cancelled",
           ![t].must_cancel = FALSE,
           ![t].service = [s \in Services |->
                              IF task[t].service[s] = "running" THEN "cancelled"
                              ELSE task[t].service[s]],
           ![t].after = IF task[t].after = "running" THEN "cancelled"
                        ELSE task[t].after]
    /\ UNCHANGED <<background_tasks, sd, logged>>

\* unified_shutdown up to its gather: every task not done is cancelled
ShutdownCancel ==
    /\ sd = "serving"
    /\ IF background_tasks # <<>>
       THEN /\ task' = [t \in TaskNames |->
                           IF t \in Registered /\ ~Done(t)
                           THEN [task[t] EXCEPT !.must_cancel = TRUE]
                           ELSE task[t]]
            /\ sd' = "gather"
       ELSE /\ UNCHANGED task
            /\ sd' = "cleanup"
    /\ UNCHANGED <<background_tasks, logged>>

\* "await asyncio.gather(*_background_tasks, return_exceptions=True)" returns
\* once every task is done, then _background_tasks.clear()
ShutdownGather ==
    /\ sd = "gather"
    /\ \A t \in Registered : Done(t)
    /\ background_tasks' = <<>>
    /\ sd' = "cleanup"
    /\ UNCHANGED <<task, logged>>

\* the closing of the services, whose failures are logged; the function returns
ShutdownReturns(failed) ==
    /\ sd = "cleanup"
    /\ sd' = "returned"
    /\ logged' = IF failed THEN logged \cup {"postgresql"} ELSE logged
    /\ UNCHANGED <<background_tasks, task>>

NotTaskVars ==
    <<bot_sessions, conversations, next_uuid, call, streamVars, authVars, rateVars,
      linkVars, workflowVars, textVars>>

InitTasks ==
    /\ bot_sessions = {}
    /\ conversations = <<>>
    /\ next_uuid = 1
    /\ call = [r \in Callers |-> IdleCall]
    /\ StreamIdle
    /\ AuthIdle
    /\ RateIdle
    /\ LinkIdle
    /\ RestIdle

NextTasks ==
    \/ \E production \in BOOLEAN : UnifiedStartup(production) /\ UNCHANGED NotTaskVars
    \/ \E t \in TaskNames : RunAll(t) /\ UNCHANGED NotTaskVars
    \/ \E t \in TaskNames, s \in Services, ok \in BOOLEAN :
          ServiceReturns(t, s, ok) /\ UNCHANGED NotTaskVars
    \/ \E t \in TaskNames : GatherReturns(t) /\ UNCHANGED NotTaskVars
    \/ \E t \in TaskNames, ok \in BOOLEAN : AfterReturns(t, ok) /\ UNCHANGED NotTaskVars
    \/ \E t \in TaskNames : TaskCancelled(t) /\ UNCHANGED NotTaskVars
    \/ ShutdownCancel /\ UNCHANGED NotTaskVars
    \/ ShutdownGather /\ UNCHANGED NotTaskVars
    \/ \E failed \in BOOLEAN : ShutdownReturns(failed) /\ UNCHANGED NotTaskVars

SpecTasks == InitTasks /\ [][NextTasks]_vars

-----------------------------------------------------------------------------
(* Output redirects: extract_output_redirect, utils/command_parsing.py *)

MaxCmdLen == 5

\* the characters commands are written with: a letter, a blank, the redirect
\* sign, the two quotes and the backslash
CmdChars == {"a", " ", ">", "'", "\"", "\\"}

Commands == UNION {[1..n -> CmdChars] : n \in 0..MaxCmdLen}

\* str.isspace() of one character
IsSpace(c) == c \in {" ", "\n", "\t"}

RECURSIVE rstrip(_)
\* str.rstrip()
rstrip(s) ==
    IF s = <<>> THEN s
    ELSE IF IsSpace(s[Len(s)]) THEN rstrip(SubSeq(s, 1, Len(s) - 1))
    ELSE s

\* str.endswith / str.startswith
endswith(s, suffix) ==
    Len(s) >= Len(suffix) /\ SubSeq(s, Len(s) - Len(suffix) + 1, Len(s)) = suffix

startswith(s, prefix) ==
    Len(s) >= Len(prefix) /\ SubSeq(s, 1, Len(prefix)) = prefix

RECURSIVE Backslashes(_, _)
\* the number of consecutive backslashes ending at position j
Backslashes(text, j) ==
    IF j < 1 THEN 0
    ELSE IF text[j] # "\\" THEN 0
    ELSE 1 + Backslashes(text, j - 1)

RECURSIVE FindOpeningDoubleQuote(_, _)
\* _find_opening_double_quote, scanning down from position i: the nearest '"'
\* preceded by an even number of backslashes, 0 when there is none
FindOpeningDoubleQuote(text, i) ==
    IF i < 1 THEN 0
    ELSE IF text[i] # "\"" THEN FindOpeningDoubleQuote(text, i - 1)
    ELSE IF Backslashes(text, i - 1) % 2 = 0 THEN i
    ELSE FindOpeningDoubleQuote(text, i - 1)

\* s.rfind("'", 0, end - 1), as a position counted from 1, 0 when not found
RFindSingleQuote(s, before) ==
    LET at == {i \in 1..(before - 1) : s[i] = "'"}
    IN  IF at = {} THEN 0 ELSE CHOOSE i \in at : \A j \in at : j <= i

\* the start of the last run of non-blank characters
TokenStart(s) ==
    CHOOSE i \in 1..(Len(s) + 1) :
        /\ \A j \in i..Len(s) : ~IsSpace(s[j])
        /\ i > 1 => IsSpace(s[i - 1])

\* (original, None)
NoRedirect(original) == [command |-> original, mode |-> None, filepath |-> <<>>]

\* a reading of the operator that takes one '>' wherever it finds one
RedirectBefore_single_sign(original, prefix0, filepath) ==
    LET prefix == rstrip(prefix0)
    IN  IF endswith(prefix, <<">">>)
        THEN [command |-> rstrip(SubSeq(prefix, 1, Len(prefix) - 1)),
              mode |-> ">", filepath |-> filepath]
        ELSE NoRedirect(original)

\* the end of the function: the prefix without trailing blanks must end with
\* the operator
RedirectBefore(original, prefix0, filepath) ==
    LET prefix == rstrip(prefix0)
    IN  IF endswith(prefix, <<">", ">">>)
        THEN [command |-> rstrip(SubSeq(prefix, 1, Len(prefix) - 2)),
              mode |-> ">>", filepath |-> filepath]
        ELSE IF endswith(prefix, <<">">>)
        THEN [command |-> rstrip(SubSeq(prefix, 1, Len(prefix) - 1)),
              mode |-> ">", filepath |-> filepath]
        ELSE NoRedirect(original)

\* the quoted branches: the text between the quotes, which must not be empty
QuotedRedirect(original, s, open_idx) ==
    IF open_idx = 0 THEN NoRedirect(original)
    ELSE IF SubSeq(s, open_idx + 1, Len(s) - 1) = <<>> THEN NoRedirect(original)
    ELSE RedirectBefore(original, SubSeq(s, 1, open_idx - 1),
                        SubSeq(s, open_idx + 1, Len(s) - 1))

\* the unquoted branch: the last token carries the operator itself, or the
\* operator stands before it
UnquotedRedirect(original, s) ==
    LET i == TokenStart(s)
        filepath == SubSeq(s, i, Len(s))
        prefix == SubSeq(s, 1, i - 1)
    IN  IF filepath = <<>> THEN NoRedirect(original)
        ELSE IF startswith(filepath, <<">", ">">>) /\ Len(filepath) > 2
        THEN [command |-> rstrip(prefix), mode |-> ">>",
              filepath |-> SubSeq(filepath, 3, Len(filepath))]
        ELSE IF startswith(filepath, <<">">>) /\ Len(filepath) > 1
        THEN [command |-> rstrip(prefix), mode |-> ">",
              filepath |-> SubSeq(filepath, 2, Len(filepath))]
        ELSE RedirectBefore(original, prefix, filepath)

extract_output_redirect(original) ==
    LET s == rstrip(original)
    IN  IF s = <<>> THEN NoRedirect(original)
        ELSE IF s[Len(s)] = "\""
        THEN QuotedRedirect(original, s, FindOpeningDoubleQuote(s, Len(s) - 1))
        ELSE IF s[Len(s)] = "'"
        THEN QuotedRedirect(original, s, RFindSingleQuote(s, Len(s)))
        ELSE UnquotedRedirect(original, s)

\* a command is handed to extract_output_redirect
ExtractOutputRedirect ==
    /\ redirect = Absent
    /\ redirect' = extract_output_redirect(command_str)
    /\ UNCHANGED <<command_str, content, frontmatter>>

NotTextVars ==
    <<bot_sessions, conversations, next_uuid, call, streamVars, authVars, rateVars,
      linkVars, workflowVars, taskVars>>

InitRedirect ==
    /\ bot_sessions = {}
    /\ conversations = <<>>
    /\ next_uuid = 1
    /\ call = [r \in Callers |-> IdleCall]
    /\ StreamIdle
    /\ AuthIdle
    /\ RateIdle
    /\ LinkIdle
    /\ WorkflowIdle
    /\ TaskIdle
    /\ command_str \in Commands
    /\ redirect = Absent
    /\ content = <<>>
    /\ frontmatter = Absent

NextRedirect == ExtractOutputRedirect /\ UNCHANGED NotTextVars

SpecRedirect == InitRedirect /\ [][NextRedirect]_vars

-----------------------------------------------------------------------------
(* YAML frontmatter: split_yaml_frontmatter, utils/markdown_utils.py *)

MaxContentLen == 6

\* what contents are written with: the three dashes of a delimiter taken as
\* one symbol, a letter, a blank, and the two line-ending characters
ContentSymbols == {"---", "a", " ", "\n", "\r"}

Contents == UNION {[1..n -> ContentSymbols] : n \in 0..MaxContentLen}

\* the end of the first line of a non-empty text: "\n", "\r\n" or "\r" closes a
\* line and belongs to it; the last line may have no ending
LineEnd(s) ==
    LET ends == {i \in 1..Len(s) : s[i] \in {"\n", "\r"}}
    IN  IF ends = {} THEN Len(s)
        ELSE LET i == CHOOSE e \in ends : \A f \in ends : e <= f
             IN  IF s[i] = "\r" /\ i < Len(s) /\ s[i + 1] = "\n" THEN i + 1 ELSE i

RECURSIVE splitlines(_)
\* str.splitlines(keepends=True)
splitlines(s) ==
    IF s = <<>> THEN <<>>
    ELSE <<SubSeq(s, 1, LineEnd(s))>> \o splitlines(SubSeq(s, LineEnd(s) + 1, Len(s)))

RECURSIVE lstrip(_)
\* str.lstrip()
lstrip(s) ==
    IF s = <<>> THEN s
    ELSE IF IsSpace(s[1]) \/ s[1] = "\r" THEN lstrip(Tail(s))
    ELSE s

RECURSIVE rstrip_ws(_)
\* str.rstrip() on a text that may hold carriage returns
rstrip_ws(s) ==
    IF s = <<>> THEN s
    ELSE IF IsSpace(s[Len(s)]) \/ s[Len(s)] = "\r" THEN rstrip_ws(SubSeq(s, 1, Len(s) - 1))
    ELSE s

\* str.strip()
strip(s) == lstrip(rstrip_ws(s))

\* line.strip() == "---"
IsDelimiter(line) == strip(line) = <<"---">>

RECURSIVE join(_)
\* "".join(lines)
join(lines) == IF lines = <<>> THEN <<>> ELSE Head(lines) \o join(Tail(lines))

\* the removal of one final line ending only
rstrip_final_line_ending(s) ==
    IF s = <<>> THEN s
    ELSE IF Len(s) >= 2 /\ s[Len(s) - 1] = "\r" /\ s[Len(s)] = "\n"
    THEN SubSeq(s, 1, Len(s) - 2)
    ELSE IF s[Len(s)] \in {"\n", "\r"} THEN SubSeq(s, 1, Len(s) - 1)
    ELSE s

RECURSIVE rstrip_crlf(_)
\* str.rstrip("\r\n"): every trailing carriage return and line feed goes
rstrip_crlf(s) ==
    IF s = <<>> THEN s
    ELSE IF s[Len(s)] \in {"\n", "\r"} THEN rstrip_crlf(SubSeq(s, 1, Len(s) - 1))
    ELSE s

\* the indexes after the first of the lines that are delimiters
ClosingLines(lines) == {idx \in 2..Len(lines) : IsDelimiter(lines[idx])}

\* return None
NoFrontmatter == [found |-> FALSE, frontmatter |-> <<>>, body |-> <<>>]

split_yaml_frontmatter(text) ==
    LET lines == splitlines(text)
    IN  IF text = <<>> THEN NoFrontmatter
        ELSE IF lines = <<>> THEN NoFrontmatter
        ELSE IF ~IsDelimiter(lines[1]) THEN NoFrontmatter
        ELSE IF ClosingLines(lines) = {} THEN NoFrontmatter
        ELSE LET idx == CHOOSE i \in ClosingLines(lines) :
                            \A j \in ClosingLines(lines) : i <= j
             IN  [found |-> TRUE,
                  frontmatter |-> rstrip_crlf(join(SubSeq(lines, 2, idx - 1))),
                  body |-> join(SubSeq(lines, idx + 1, Len(lines)))]

\* a content is handed to split_yaml_frontmatter
SplitYamlFrontmatter ==
    /\ frontmatter = Absent
    /\ frontmatter' = split_yaml_frontmatter(content)
    /\ UNCHANGED <<command_str, redirect, content>>

InitFrontmatter ==
    /\ bot_sessions = {}
    /\ conversations = <<>>
    /\ next_uuid = 1
    /\ call = [r \in Callers |-> IdleCall]
    /\ StreamIdle
    /\ AuthIdle
    /\ RateIdle
    /\ LinkIdle
    /\ WorkflowIdle
    /\ TaskIdle
    /\ command_str = <<>>
    /\ redirect = Absent
    /\ content \in Contents
    /\ frontmatter = Absent

NextFrontmatter == SplitYamlFrontmatter /\ UNCHANGED NotTextVars

SpecFrontmatter == InitFrontmatter /\ [][NextFrontmatter]_vars

-----------------------------------------------------------------------------
(* Properties of the session manager *)

SessionKeys ==
    {build_session_key(p, u, c) : p \in Platforms, u \in PlatformUserIds, c \in Channels}

\* the conversation exists and belongs to the account
LiveOwned(c, u) ==
    /\ c \in DOMAIN conversations
    /\ ~conversations[c].deleted
    /\ conversations[c].user_id = u

Stepped(r) == call'[r] # call[r]

\* what a finished call holds, and what each step of a call does to it
ReturnedIsOwned ==
    \A r \in Callers :
        call[r].pc = "done" =>
            /\ call[r].res \in DOMAIN conversations
            /\ conversations[call[r].res].user_id = call[r].user

OwnershipStep(r) ==
    /\ (call[r].pc = "check" /\ call'[r].pc = "done")
           => LiveOwned(call'[r].res, call[r].user)
    /\ (call[r].pc = "check" /\ Stepped(r)
            /\ ~LiveOwned(call[r].conv_id, call[r].user))
           => call'[r].pc = "create"
    /\ (call[r].pc = "create" /\ Stepped(r))
           => /\ call'[r].conversation_id \notin DOMAIN conversations
              /\ call'[r].conversation_id \in DOMAIN conversations'
              /\ conversations'[call'[r].conversation_id].user_id = call[r].user
              /\ ~conversations'[call'[r].conversation_id].deleted
    /\ (call[r].pc = "upsert" /\ Stepped(r))
           => call'[r].pc = "done" /\ call'[r].res = call[r].conversation_id

\* C2 (session ownership): every conversation_id returned by
\* get_or_create_session names a conversation owned by the caller's account; on
\* the reuse path the conversation exists when it is returned; a stored session
\* that points at a missing or foreign conversation makes the call create a fresh
\* conversation owned by the caller, which is the one it returns.
Thm_C2_SessionOwnership ==
    []ReturnedIsOwned /\ [][\A r \in Callers : OwnershipStep(r)]_vars

\* a call found the session of its key pointing at a live conversation of
\* another account and returned a different conversation, owned by its caller
Wit_C2_ForeignSessionReplaced ==
    \E r \in Callers :
        /\ call[r].pc = "done"
        /\ call[r].conv_id \in DOMAIN conversations
        /\ ~conversations[call[r].conv_id].deleted
        /\ conversations[call[r].conv_id].user_id # call[r].user
        /\ call[r].res # call[r].conv_id
        /\ LiveOwned(call[r].res, call[r].user)

\* the lookup and the reuse path of one call
IdempotentStep(r) ==
    /\ (call[r].pc = "find" /\ Stepped(r) /\ SessionDocs(SessionKeyOf(r)) # {})
           => /\ call'[r].pc = "check"
              /\ \E d \in SessionDocs(SessionKeyOf(r)) :
                     call'[r].conv_id = d.conversation_id
              /\ UNCHANGED <<bot_sessions, conversations, next_uuid>>
    /\ (call[r].pc = "check" /\ Stepped(r)
            /\ LiveOwned(call[r].conv_id, call[r].user))
           => /\ call'[r].pc = "done"
              /\ call'[r].res = call[r].conv_id
              /\ UNCHANGED <<bot_sessions, conversations, next_uuid>>

\* C3 (idempotent session resolution): a get_or_create_session call that finds
\* the session of its key pointing at a conversation that still exists and is
\* owned by its account returns that conversation_id and creates no conversation
\* and writes no session.
Thm_C3_IdempotentResolution == [][\A r \in Callers : IdempotentStep(r)]_vars

\* two finished calls for the same key and account hold the same conversation,
\* which is the one the session document points at
Wit_C3_SameConversationTwice ==
    \E r1, r2 \in Callers :
        /\ r1 # r2
        /\ call[r1].pc = "done" /\ call[r2].pc = "done"
        /\ SessionKeyOf(r1) = SessionKeyOf(r2)
        /\ call[r1].user = call[r2].user
        /\ call[r1].res = call[r2].res
        /\ LiveOwned(call[r1].res, call[r1].user)
        /\ SessionDocs(SessionKeyOf(r1)) =
               {[session_key |-> SessionKeyOf(r1), conversation_id |-> call[r1].res]}
        /\ next_uuid = 2

\* the session documents of a key, and the steps that write and read them
AtMostOneSessionPerKey ==
    \A k \in SessionKeys : Cardinality(SessionDocs(k)) <= 1

LastUpsertStep(r) ==
    /\ (call[r].pc = "upsert" /\ Stepped(r))
           => SessionDocs(SessionKeyOf(r))' =
                  {[session_key |-> SessionKeyOf(r),
                    conversation_id |-> call[r].conversation_id]}
    /\ (call[r].pc = "find" /\ Stepped(r))
           => \A d \in SessionDocs(SessionKeyOf(r)) :
                  call'[r].conv_id = d.conversation_id
    /\ (call[r].pc = "check" /\ Stepped(r)
            /\ LiveOwned(call[r].conv_id, call[r].user))
           => call'[r].res = call[r].conv_id

\* C4 (one session document per key, last upsert wins): under every
\* interleaving the store holds at most one BotSession document per
\* session_key; each upsert leaves the key pointing at the conversation_id it
\* wrote; a later call reads that conversation_id and returns it while the
\* conversation exists and belongs to the caller's account.
Thm_C4_OneSessionLastUpsertWins ==
    []AtMostOneSessionPerKey /\ [][\A r \in Callers : LastUpsertStep(r)]_vars

\* two racing calls for one key have both finished with different
\* conversations and the single session document points at one of them
Wit_C4_RaceSettled ==
    \E r1, r2 \in Callers :
        /\ call[r1].pc = "done" /\ call[r2].pc = "done"
        /\ SessionKeyOf(r1) = SessionKeyOf(r2)
        /\ call[r1].user = call[r2].user
        /\ call[r1].res # call[r2].res
        /\ SessionDocs(SessionKeyOf(r1)) =
               {[session_key |-> SessionKeyOf(r1), conversation_id |-> call[r2].res]}

\* the calls for key k that have created a conversation and not yet written
\* the session
Racing(k) ==
    {r \in Callers : call[r].pc = "upsert" /\ SessionKeyOf(r) = k}

\* C5 as stated (exactly-once creation): calls of one account that run
\* concurrently for one session key while no session exists create one
\* conversation between them.
Orig_C5_ExactlyOneConversation ==
    \A k \in SessionKeys, a \in Accounts :
        SessionDocs(k) = {} =>
            Cardinality({call[r].conversation_id :
                            r \in {x \in Racing(k) : call[x].user = a}}) <= 1

\* C5 (amended): every concurrent call that misses the lookup creates its own
\* conversation, owned by its account (one per such call, not one per key),
\* and the key still has at most one BotSession document.
Thm_C5_OneConversationPerMissingCall ==
    /\ \A k \in SessionKeys : Cardinality(SessionDocs(k)) <= 1
    /\ \A r \in Callers :
           call[r].pc = "upsert" =>
               /\ call[r].conversation_id \in DOMAIN conversations
               /\ conversations[call[r].conversation_id].user_id = call[r].user
    /\ \A k \in SessionKeys :
           Cardinality({call[r].conversation_id : r \in Racing(k)})
               = Cardinality(Racing(k))

\* two calls of the same account for the same key each hold a conversation of
\* their own, before either has written the session
Wit_C5_TwoConversationsOneKey ==
    \E k \in SessionKeys :
        /\ SessionDocs(k) = {}
        /\ Cardinality(Racing(k)) = 2
        /\ \A r1, r2 \in Racing(k) : call[r1].user = call[r2].user

-----------------------------------------------------------------------------
(* Properties of the stream relay *)

RECURSIVE Concat(_)
Concat(texts) ==
    IF texts = <<>> THEN "" ELSE Head(texts) \o Concat(Tail(texts))

IsTerminal(ev) == "done" \in DOMAIN ev \/ ev = RawDone
IsError(ev) == "error" \in DOMAIN ev
IsResponseChunk(chunk) ==
    chunk.prefix = "data: " /\ "json" \in DOMAIN chunk /\ "response" \in DOMAIN chunk.json
IsErrorChunk(chunk) ==
    chunk.prefix = "data: " /\ "json" \in DOMAIN chunk /\ "error" \in DOMAIN chunk.json

Positions(seq, P(_)) == {i \in 1..Len(seq) : P(seq[i])}

\* the generator ran past its last yield
RanToEnd == gpc \in {"after_done", "update_messages", "finished"}

\* the messages the exchange has put into its conversation
Stored ==
    IF chat_conversation_id = NoConv THEN <<>>
    ELSE conversations[chat_conversation_id].messages

\* C6 as stated: every exchange whose stream completes, by normal end, client
\* disconnect or internal error, has had update_messages called exactly once.
Orig_C6_PersistedExactlyOnce ==
    (gpc \in {"finished", "cancelled"} /\ chat_conversation_id # NoConv)
        => update_calls = 1

\* C6 (amended): update_messages is never called twice for an exchange; when
\* the generator runs to its end (normal end or internal error) it has been
\* called once if the accumulated reply is non-empty and not at all if it is
\* empty; when the client disconnects before the save is started nothing is
\* saved; the conversation holds at most the one user/bot pair.
Thm_C6_PersistedAtMostOnce ==
    /\ update_calls <= 1
    /\ (gpc = "finished" /\ chat_conversation_id # NoConv)
           => update_calls = (IF complete_message # "" THEN 1 ELSE 0)
    /\ gpc \in {"idle", "auth_required", "auth_required_done", "call_agent",
                "iterate", "yield_done", "after_done"} => update_calls = 0
    /\ Stored \in {<<>>, <<[type |-> "user", response |-> message],
                          [type |-> "bot", response |-> complete_message]>>}
    /\ Stored # <<>> => update_calls = 1

\* an exchange that ended by an internal error saved its partial reply once
Wit_C6_SavedOnceAfterError ==
    /\ gpc = "finished"
    /\ exc # None
    /\ update_calls = 1
    /\ Stored = <<[type |-> "user", response |-> "hello"],
                  [type |-> "bot", response |-> "Hi "]>>

\* C7 (one terminal marker): the client-facing stream never holds more than
\* one terminal marker, nothing follows the marker, and a stream whose
\* generator ran to its end holds exactly one.
Thm_C7_OneTerminalMarker ==
    /\ Cardinality(Positions(out, IsTerminal)) <= 1
    /\ \A i \in Positions(out, IsTerminal) : i = Len(out)
    /\ (RanToEnd \/ gpc = "finished")
           => Cardinality(Positions(out, IsTerminal)) = 1

\* text was forwarded, the [DONE] chunk was taken, and the done event is the
\* last of the events sent
Wit_C7_DoneAfterText ==
    /\ gpc = "finished"
    /\ Len(stream) >= 2
    /\ stream[Len(stream)] = DONE
    /\ Len(out) = Len(stream)
    /\ out[Len(out)] = DoneEvent(chat_conversation_id)

\* C8 (source raises): when call_agent or the iteration raised, the relay has
\* emitted exactly one error event, it carries the exception's message, the
\* done event follows it directly and closes the stream.
Thm_C8_ErrorThenDone ==
    /\ exc # None
           => /\ Cardinality(Positions(out, IsError)) = 1
              /\ \A i \in Positions(out, IsError) : out[i] = ErrorEvent(exc)
    /\ (exc # None /\ RanToEnd)
           => /\ Len(out) >= 2
              /\ out[Len(out) - 1] = ErrorEvent(exc)
              /\ out[Len(out)] = DoneEvent(chat_conversation_id)
    /\ (gpc = "finished") => (out # <<>> /\ IsTerminal(out[Len(out)]))

\* the stream raised after a text event had been forwarded
Wit_C8_RaisedMidStream ==
    /\ gpc = "finished"
    /\ exc = "boom"
    /\ out = <<TextEvent("Hi "), ErrorEvent("boom"), DoneEvent(chat_conversation_id)>>

\* C9 as stated (error short-circuit): a data event with an 'error' field is
\* forwarded as an error event, it is the last internal event consumed, and
\* the terminal marker follows the error event directly.
Orig_C9_ErrorShortCircuit ==
    \A i \in Positions(stream, IsErrorChunk) :
        /\ i = Len(stream)
        /\ ErrorEvent(stream[i].json.error) \in {out[j] : j \in 1..Len(out)}
        /\ gpc \notin {"iterate"}

ResponsesOnly(chunks) == \A i \in 1..Len(chunks) : IsResponseChunk(chunks[i])

TextsOf(chunks) == [i \in 1..Len(chunks) |-> TextEvent(chunks[i].json.response)]

PayloadsOf(chunks) == [i \in 1..Len(chunks) |-> chunks[i].json.response]

\* C10 (stream translation completeness): for an internal sequence of k
\* 'response' data events the relay has emitted the k text events with the same
\* payloads in the same order and the accumulator is their concatenation; once
\* [DONE] follows and the generator has run on, exactly one done event carrying
\* the conversation id closes the output.
Thm_C10_TranslationComplete ==
    /\ (gpc = "iterate" /\ ResponsesOnly(stream))
           => /\ out = TextsOf(stream)
              /\ complete_message = Concat(PayloadsOf(stream))
    /\ (RanToEnd /\ stream # <<>> /\ stream[Len(stream)] = DONE
            /\ ResponsesOnly(SubSeq(stream, 1, Len(stream) - 1)))
           => LET responses == SubSeq(stream, 1, Len(stream) - 1)
              IN  /\ out = TextsOf(responses) \o <<DoneEvent(chat_conversation_id)>>
                  /\ complete_message = Concat(PayloadsOf(responses))

\* the scripted sequence "Hi ", "there", [DONE]
Wit_C10_HiThere ==
    /\ gpc = "finished"
    /\ stream = <<DataChunk([response |-> "Hi "]), DataChunk([response |-> "there"]), DONE>>
    /\ out = <<TextEvent("Hi "), TextEvent("there"), DoneEvent(chat_conversation_id)>>
    /\ complete_message = "Hi there"

\* the event a keepalive would be forwarded as
KeepaliveEvent == [keepalive |-> TRUE]

IsKeepaliveChunk(chunk) ==
    chunk.prefix = "data: " /\ "json" \in DOMAIN chunk /\ "keepalive" \in DOMAIN chunk.json

\* the generator has just taken a chunk from the stream
Consumed == gpc = "iterate" /\ Len(stream') = Len(stream) + 1

\* C11 as stated (keepalive pass-through): every data event with a keepalive
\* flag that the relay consumes puts one keepalive event on the client-facing
\* stream and leaves the accumulator unchanged.
Orig_C11_KeepaliveForwarded ==
    [][(Consumed /\ IsKeepaliveChunk(stream'[Len(stream')]))
          => /\ out' = Append(out, KeepaliveEvent)
             /\ complete_message' = complete_message]_vars

IsSummaryChunk(chunk) ==
    /\ chunk.prefix = "nostream: "
    /\ "json" \in DOMAIN chunk
    /\ "complete_message" \in DOMAIN chunk.json

IsText(ev) == "text" \in DOMAIN ev

\* the payloads of the text events that were sent, in order
ForwardedText == [i \in 1..Len(SelectSeq(out, IsText)) |-> SelectSeq(out, IsText)[i].text]

\* the bot message that was stored, if one was
StoredBot == Stored[2].response

\* what the chunks leave in the accumulator: the last summary's
\* complete_message, if there was one, and the responses after it
RECURSIVE Accumulated(_)
Accumulated(chunks) ==
    IF chunks = <<>> THEN ""
    ELSE LET last == chunks[Len(chunks)]
             init == SubSeq(chunks, 1, Len(chunks) - 1)
         IN  IF IsSummaryChunk(last) THEN last.json.complete_message
             ELSE IF IsResponseChunk(last)
                  THEN Accumulated(init) \o last.json.response
                  ELSE Accumulated(init)

\* C12 as stated (stream-to-storage consistency): a stored bot message is the
\* in-order concatenation of the text events the client was sent, also when
\* the internal sequence mixes response events with a nostream summary.
Orig_C12_StoredIsForwardedText ==
    Stored # <<>> => StoredBot = Concat(ForwardedText)

\* C12 (amended): a stored bot message is the accumulator, that is the last
\* nostream summary's complete_message followed by the responses that came
\* after it; the text events sent are the responses in order; when no summary
\* with a complete_message arrived the stored message is the concatenation of
\* the text events sent.
Thm_C12_StoredIsAccumulator ==
    /\ complete_message = Accumulated(stream)
    /\ ForwardedText = PayloadsOf(SelectSeq(stream, IsResponseChunk))
    /\ Stored # <<>> =>
           /\ StoredBot = complete_message
           /\ Positions(stream, IsSummaryChunk) = {}
                  => StoredBot = Concat(ForwardedText)

\* a summary arrived between two responses and the exchange was stored
Wit_C12_SummaryBetweenResponses ==
    /\ stream = <<DataChunk([response |-> "Hi "]),
                  NostreamChunk([complete_message |-> "whole"]),
                  DataChunk([response |-> "there"])>>
    /\ ForwardedText = <<"Hi ", "there">>
    /\ Stored # <<>>
    /\ StoredBot = "wholethere"

-----------------------------------------------------------------------------
(* Properties of the rate limiter *)

Min(a, b) == IF a <= b THEN a ELSE b

\* call r went from one position to another
RlStepped(r) == rl'[r] # rl[r]

\* call r entered enforce_rate_limit in this step
RlEntered(r) == rl[r].pc \in {"idle", "done"} /\ RlStepped(r)

\* the counts handed out in a window and what became of their requests
WindowAdmitsLimit ==
    /\ admitted <= BOT_RATE_LIMIT
    /\ (\A r \in Callers : rl[r].pc # "expire")
           => admitted = Min(ratelimit.count, BOT_RATE_LIMIT)
    /\ \A r \in Callers :
           (rl[r].pc = "done" /\ rl[r].count # 0)
               => /\ rl[r].count <= BOT_RATE_LIMIT => rl[r].result = "admitted"
                  /\ rl[r].count > BOT_RATE_LIMIT => rl[r].result = "rejected_429"

\* with the store reachable: the count a request gets is one more than the
\* key's live value, the first count of a window sets the 60-second expiry,
\* and a request that finds the key expired starts a new window
WindowStep(r) ==
    /\ (RlEntered(r) /\ redis = "up")
           => /\ ratelimit'.count = LiveCount + 1
              /\ rl'[r].count = LiveCount + 1
              /\ LiveCount = 0 => rl'[r].pc = "expire"
    /\ (rl[r].pc = "expire" /\ RlStepped(r) /\ redis = "up")
           => /\ ratelimit'.expires_at = clock + BOT_RATE_WINDOW
              /\ rl'[r].result = "admitted"

\* C13 (rate limiter boundary): for one key with the counter store reachable,
\* the requests of a window get the counts 1, 2, ...; those with counts up to
\* BOT_RATE_LIMIT are admitted (exactly BOT_RATE_LIMIT of them), every further
\* one in the window is rejected with 429, and the first request after the
\* key's expiry gets count 1 and is admitted.
Thm_C13_RateLimitBoundary ==
    []WindowAdmitsLimit /\ [][\A r \in Callers : WindowStep(r)]_vars

\* the 21st request of a window was rejected and, after the window expired,
\* the next request was admitted with count 1
Wit_C13_RejectedThenAdmittedAfterExpiry ==
    \E r1, r2 \in Callers :
        /\ rl[r1].pc = "done" /\ rl[r1].result = "rejected_429"
        /\ rl[r1].count = BOT_RATE_LIMIT + 1
        /\ rl[r2].pc = "done" /\ rl[r2].result = "admitted" /\ rl[r2].count = 1
        /\ ratelimit.count = 1
        /\ clock >= BOT_RATE_WINDOW
        /\ admitted = 1

\* a call that met an unavailable store is admitted and nothing is raised
FailOpenStep(r) ==
    /\ (RlEntered(r) /\ redis # "up")
           => /\ rl'[r].pc = "done" /\ rl'[r].result = "admitted"
              /\ UNCHANGED ratelimit
    /\ (rl[r].pc = "expire" /\ RlStepped(r) /\ redis # "up")
           => rl'[r].pc = "done" /\ rl'[r].result = "admitted"

NothingRaised ==
    \A r \in Callers : rl[r].result \in {None, "admitted", "rejected_429"}

\* C14 (fail open): a call of enforce_rate_limit that finds no Redis client, or
\* whose incr or expire raises, admits the request whatever the counter holds,
\* and no call ends with the store's exception.
Thm_C14_FailOpen ==
    []NothingRaised /\ [][\A r \in Callers : FailOpenStep(r)]_vars

\* the store went down with the counter over the limit and a request was admitted
Wit_C14_AdmittedOverLimit ==
    \E r \in Callers :
        /\ redis = "down"
        /\ LiveCount > BOT_RATE_LIMIT
        /\ rl[r].pc = "done" /\ rl[r].result = "admitted" /\ rl[r].count = 0

-----------------------------------------------------------------------------
(* Properties of the authentication middleware *)

\* the step at which _authenticate_jwt settles on a user for the request:
\* the cache hit in JwtGetCache or the database match in JwtDb
JwtBindsUser ==
    /\ req.pc \in {"jwt_get_cache", "jwt_db"}
    /\ req'.user_info # None

\* C1 (token scoping): whenever the middleware binds a user to a request that
\* carried a verified session token for (U1, P, ID1), the durable link of
\* (P, ID1) points at U1 at that moment, whatever the identity cache holds.
Orig_C1_TokenScopedToLink ==
    [][JwtBindsUser =>
          req'.user_info \in LinkedAccounts(req.payload.platform,
                                            req.payload.platform_user_id)]_vars

\* the request carries the configured API key
KeyIsSecret == req.secret # None /\ req.api_key = req.secret

\* both platform headers are there
HasPlatformHeaders == req.platform # None /\ req.platform_user_id # None

\* C15 (API key alone resolves no user): a request that carries the valid bot
\* API key but not both platform headers, and that no bearer token
\* authenticated, ends with bot_api_key_valid set, authenticated false and no
\* user.
Thm_C15_KeyAloneResolvesNoUser ==
    (req.pc = "done" /\ req.via # "jwt" /\ KeyIsSecret /\ ~HasPlatformHeaders)
        => /\ req.bot_api_key_valid
           /\ ~req.authenticated
           /\ req.user_info = None

\* the key came with the user id header only, while that user is linked
Wit_C15_KeyWithoutPlatform ==
    /\ req.pc = "done"
    /\ req.bearer = "absent"
    /\ KeyIsSecret
    /\ req.platform = None /\ req.platform_user_id = "u1"
    /\ LinkedAccounts("discord", "u1") = {"A"}
    /\ req.bot_api_key_valid /\ ~req.authenticated

\* C16 (fail closed): a request without a valid bearer token and without an
\* API key equal to the configured secret (also when no secret is configured)
\* never gets authenticated or bot_api_key_valid, whatever platform headers it
\* carries and whether or not that platform user is linked; the endpoint's key
\* check answers 401.
Thm_C16_FailClosed ==
    (req.pc # "idle" /\ req.bearer # "good" /\ ~KeyIsSecret)
        => /\ ~req.authenticated
           /\ ~req.bot_api_key_valid
           /\ req.user_info = None
           /\ req.pc = "done"
           /\ verify_bot_api_key(req.api_key, req.secret) = 401

\* the right key was sent for a linked user while no secret is configured
Wit_C16_NoSecretConfigured ==
    /\ req.pc = "done"
    /\ req.secret = None /\ req.api_key = GAIA_BOT_API_KEY
    /\ HasPlatformHeaders
    /\ LinkedAccounts(req.platform, req.platform_user_id) # {}
    /\ ~req.authenticated /\ ~req.bot_api_key_valid

InvalidBearers == {"expired", "malformed", "wrong_signature", "wrong_role"}

\* the request as dispatch leaves it when no Authorization header was sent
AsIfNoBearer(r) ==
    ApiKeyFallback([IdleRequest EXCEPT !.api_key = r.api_key, !.secret = r.secret,
                                       !.platform = r.platform,
                                       !.platform_user_id = r.platform_user_id])

InvalidBearerStep ==
    (req.pc = "idle" /\ req' # req /\ req'.bearer \in InvalidBearers)
        => /\ ~req'.raised
           /\ req'.payload = Absent
           /\ [req' EXCEPT !.bearer = "absent"] = AsIfNoBearer(req')

\* C17 (invalid bearer treated as absent): an expired, malformed, wrongly
\* signed or wrong-role bearer token never makes dispatch raise, and dispatch
\* leaves the request where the API key and platform headers alone would have
\* put it had no Authorization header been sent.
Thm_C17_InvalidBearerAsAbsent ==
    [](~req.raised) /\ [][InvalidBearerStep]_vars

\* an expired token came with the API key and platform headers of a linked
\* user, who was resolved through the platform path
Wit_C17_ExpiredThenPlatformPath ==
    /\ req.pc = "done"
    /\ req.bearer = "expired"
    /\ req.authenticated /\ req.via = "platform" /\ req.user_info = "A"

-----------------------------------------------------------------------------
(* Properties of account linking *)

\* C18 (PlatformLink uniqueness): after any sequence of link_account and
\* unlink_account calls, concurrent ones included, a (platform,
\* platform_user_id) pair is stored on at most one account (that an account
\* holds at most one link per platform is given by the single
\* platform_links.<platform> field).
Orig_C18_LinkUniqueness ==
    \A p \in Platforms, id \in LinkIds : Cardinality(LinkedAccounts(p, id)) <= 1

-----------------------------------------------------------------------------
(* Properties of the session key *)

\* the (platform, platform_user_id, channel_id) arguments of a call
Triple(r) == <<call[r].platform, call[r].platform_user_id, call[r].channel_id>>

\* C19 (channel isolation): for the same platform and platform user,
\* get_or_create_session never returns the same conversation_id for two
\* different channel ids, a direct message (channel absent) counting as
\* different from every channel.
Orig_C19_ChannelIsolation ==
    \A r1, r2 \in Callers :
        (/\ call[r1].pc = "done"
         /\ call[r2].pc = "done"
         /\ call[r1].platform = call[r2].platform
         /\ call[r1].platform_user_id = call[r2].platform_user_id
         /\ call[r1].channel_id # call[r2].channel_id)
        => call[r1].res # call[r2].res

\* C20 (build_session_key is injective): two different (platform,
\* platform_user_id, channel-or-absent) triples never produce the same session
\* key; the key of a direct message never equals the key of a channel.
Orig_C20_KeyInjective ==
    \A r1, r2 \in Callers :
        (/\ call[r1].pc # "idle"
         /\ call[r2].pc # "idle"
         /\ Triple(r1) # Triple(r2))
        => SessionKeyOf(r1) # SessionKeyOf(r2)

-----------------------------------------------------------------------------
(* Properties of reset_session *)

\* caller r's reset_session returns in this step
ResetReturns(r) ==
    /\ call[r].pc # "done"
    /\ call'[r].pc = "done"
    /\ call'[r].reset

\* the returned conversation is not the one the deleted session pointed at
ReturnsAnother(r) == call'[r].res # call[r].before

\* at the return the BotSession of the key points at the returned conversation
PointsAtReturned(r) ==
    PointedAt(bot_sessions',
              build_session_key(call'[r].platform, call'[r].platform_user_id,
                                call'[r].channel_id)) = call'[r].res

\* C21 as stated: the conversation_id reset_session returns differs from the one
\* the session pointed to before the reset, and when it returns the BotSession
\* for the key points at the returned conversation.
Orig_C21_ResetNewAndPointed ==
    [][\A r \in Callers :
          ResetReturns(r) => (ReturnsAnother(r) /\ PointsAtReturned(r))]_vars

\* C21 (reset_session): the conversation_id reset_session returns differs from
\* the one the session pointed to before the reset; when the reset returns
\* the conversation it created itself, the BotSession for the key points at
\* that conversation at the return.
Thm_C21_ResetNew ==
    [][\A r \in Callers :
          ResetReturns(r) =>
              /\ ReturnsAnother(r)
              /\ call[r].pc = "upsert" => PointsAtReturned(r)]_vars

\* a reset returns a conversation that an overlapping call created, after the
\* session has been deleted again
Wit_C21_ResetReturnsForeignCreation ==
    \E r \in Callers :
        /\ call[r].pc = "done"
        /\ call[r].reset
        /\ call[r].res # NoConv
        /\ PointedAt(bot_sessions, SessionKeyOf(r)) # call[r].res

-----------------------------------------------------------------------------
(* Properties of the chat-stream's event order *)

\* C22 (session token first): in every chat-stream for a resolved user, the
\* first event sent to the client is a dedicated event carrying a freshly
\* issued session token, before any text, error or done event.
Orig_C22_SessionTokenFirst ==
    (chat_conversation_id # NoConv /\ out # <<>>)
        => "session_token" \in DOMAIN out[1]

-----------------------------------------------------------------------------
(* Properties of message persistence *)

\* bot_chat's update_messages fails in this step: nothing is stored
ChatSaveFails ==
    /\ chat.pc = "update_messages"
    /\ chat'.pc = "returned"
    /\ conversations' = conversations

\* the chat-stream's update_messages fails in this step: nothing is stored
StreamSaveFails ==
    /\ gpc = "update_messages"
    /\ gpc' = "finished"
    /\ conversations' = conversations

\* C23 (persistence failure swallowed): when update_messages fails, bot_chat
\* still returns the agent's response with the conversation id, and the
\* chat-stream's events are unchanged with the done event already sent; no
\* error is bound or sent.
Thm_C23_SaveFailureSwallowed ==
    [][/\ ChatSaveFails =>
              chat'.response = BotChatResponse(chat.response_text,
                                               chat.conversation_id, TRUE)
       /\ StreamSaveFails =>
              /\ out' = out
              /\ out[Len(out)] = DoneEvent(chat_conversation_id)
              /\ exc' = exc]_vars

\* both exchanges ended after their update_messages failed
Wit_C23_BothSavesFailed ==
    /\ chat.pc = "returned"
    /\ chat.conversation_id = 1
    /\ chat.response = BotChatResponse("pong", 1, TRUE)
    /\ gpc = "finished"
    /\ update_calls = 1
    /\ \A c \in DOMAIN conversations : conversations[c].messages = <<>>

\* the (user, bot) pair of the chat-stream exchange and of the bot_chat exchange
StreamPair ==
    <<[type |-> "user", response |-> message],
      [type |-> "bot", response |-> complete_message]>>

ChatPair ==
    <<[type |-> "user", response |-> chat.message],
      [type |-> "bot", response |-> chat.response_text]>>

\* C24 (pairs in the persisted log): every conversation's message log is a
\* sequence of (user message, bot message) pairs, each pair being the one of
\* a single exchange: never split by a message of another exchange and never
\* reversed, whatever the order in which concurrent exchanges are saved.
Thm_C24_PairsNeverSplit ==
    \A c \in DOMAIN conversations :
        LET log == conversations[c].messages
        IN  /\ Len(log) % 2 = 0
            /\ \A i \in 1..Len(log) :
                   i % 2 = 1 =>
                       \/ <<log[i], log[i + 1]>> \in {StreamPair, ChatPair}
                       \/ /\ i < Len(OlderMessages)
                          /\ <<log[i], log[i + 1]>> =
                                 <<OlderMessages[i], OlderMessages[i + 1]>>

\* both exchanges saved their pair in the same conversation, bot_chat first
Wit_C24_TwoPairsOneConversation ==
    /\ Len(conversations[1].messages) = 4
    /\ conversations[1].messages[1].response = "ping"
    /\ conversations[1].messages[3].response = "hello"

-----------------------------------------------------------------------------
(* Properties of malformed and summary chunks *)

\* the chunk the generator has just taken
TakenChunk == stream'[Len(stream')]

\* a data event that was no JSON was taken earlier in the stream
MalformedSeen == \E i \in 1..Len(stream) : stream[i] = MalformedData

\* C25 (malformed data event): a data event whose payload is not well-formed
\* JSON is skipped with no forwarded event and without ending the stream, and
\* every later well-formed response event is still forwarded and accumulated.
Thm_C25_MalformedDataSkipped ==
    [][Consumed =>
          /\ TakenChunk = MalformedData =>
                 /\ out' = out
                 /\ complete_message' = complete_message
                 /\ gpc' = "iterate"
                 /\ exc' = exc
          /\ (MalformedSeen /\ IsResponseChunk(TakenChunk)) =>
                 /\ out' = Append(out, TextEvent(TakenChunk.json.response))
                 /\ complete_message' =
                        complete_message \o TakenChunk.json.response]_vars

\* a response was forwarded and accumulated after a malformed data event
Wit_C25_ResponseAfterMalformed ==
    /\ stream = <<MalformedData, DataChunk([response |-> "Hi "])>>
    /\ out = <<TextEvent("Hi ")>>
    /\ complete_message = "Hi "

\* what a nostream chunk with a JSON payload leaves in the accumulator
AfterSummary(chunk) ==
    IF IsSummaryChunk(chunk) THEN chunk.json.complete_message ELSE complete_message

-----------------------------------------------------------------------------
(* Properties of the session tokens *)

\* the token is signed with the configured secret, not past its expiry and
\* carries the role "bot"
GoodToken(token, time) == BearerKind(token, time) = "good"

\* a token made by create_bot_session_token and verified before its expiry
\* gives back the triple it was made for
RoundTrip(user_id, platform, platform_user_id, iat) ==
    LET token == create_bot_session_token(user_id, platform, platform_user_id, iat)
    IN  now <= iat + BOT_SESSION_TOKEN_EXPIRY_MINUTES =>
            /\ TokenVerifies(token, now)
            /\ verify_bot_session_token(token) =
                   [user_id |-> user_id, platform |-> platform,
                    platform_user_id |-> platform_user_id]

-----------------------------------------------------------------------------
(* Properties of the account lookups *)

\* C28 (link/lookup consistency): while account U holds the link (P, ID), the
\* lookup of (P, ID) by the bot endpoints and the lookup by the middleware and
\* the platform auth-status endpoint both resolve to U; a link stored in the
\* dict format is never treated as unlinked.
Orig_C28_LookupsResolveLinkedAccount ==
    \A a \in Accounts, p \in Platforms :
        platform_links[a][p] # None =>
            /\ get_user_by_platform_id(p, platform_links[a][p]) = {a}
            /\ LinkedAccounts(p, platform_links[a][p]) = {a}

-----------------------------------------------------------------------------
(* Properties of the admission gate *)

\* C29 (rate limiter runs first): a chat or chat-stream request rejected with
\* 429 has resolved no account and no session, has created or updated no
\* BotSession or conversation, has called no agent and has stored no message.
Thm_C29_RejectedDoesNothing ==
    /\ [](chat.pc = "rejected" =>
             /\ chat.response = [status_code |-> 429]
             /\ chat.conversation_id = NoConv
             /\ chat.response_text = None)
    /\ [](gpc = "rejected" =>
             /\ chat_conversation_id = NoConv
             /\ stream = <<>>
             /\ out = <<>>
             /\ update_calls = 0)
    /\ [][(chat'.pc = "rejected" /\ chat.pc # "rejected")
             \/ (gpc' = "rejected" /\ gpc # "rejected")
          => UNCHANGED <<bot_sessions, conversations, next_uuid, call>>]_vars

\* with the counter at the limit both requests were rejected
Wit_C29_BothRejected ==
    /\ chat.pc = "rejected"
    /\ gpc = "rejected"
    /\ ratelimit.count = BOT_RATE_LIMIT + 2

-----------------------------------------------------------------------------
(* Properties of the conversation log *)

\* s is a prefix of t
IsPrefix(s, t) == Len(s) <= Len(t) /\ SubSeq(t, 1, Len(s)) = s

\* bot_chat loads the history in this step
HistoryLoaded == chat.pc = "idle" /\ chat'.pc = "call_agent_silent"

\* the history is the last n stored messages of the log, in stored order
IsTailOf(history, log, n) ==
    /\ Len(history) = n
    /\ \A i \in 1..n :
           LET msg == log[Len(log) - n + i]
           IN  /\ history[i].content = msg.response
               /\ history[i].role = IF msg.type = "bot" THEN "assistant" ELSE "user"

-----------------------------------------------------------------------------
(* Properties of system workflow provisioning *)

\* the system workflows stored for a user under a key
StoredFor(a, key) ==
    {d \in workflows : d.user_id = a /\ d.system_workflow_key = key}

\* a call has returned after finding every key of its integration present
FoundAll(r) ==
    /\ pv[r].pc = "done"
    /\ SYSTEM_WORKFLOWS_BY_INTEGRATION(pv[r].integration_id) # <<>>
    /\ \A i \in 1..Len(SYSTEM_WORKFLOWS_BY_INTEGRATION(pv[r].integration_id)) :
           SYSTEM_WORKFLOWS_BY_INTEGRATION(pv[r].integration_id)[i] \in pv[r].found

-----------------------------------------------------------------------------
(* Properties of reset_system_workflow_to_default *)

\* the call has unregistered triggers or written the document
ResetActed(r) == rs[r].unregistered # {} \/ rs[r].updated

\* C32: a reset call has unregistered old triggers only after its registration
\* returned new trigger ids, and a call that returned False (the registration
\* raised or returned nothing among the cases) unregistered nothing and did
\* not write the workflow document
Thm_C32_RegisterBeforeUnregister ==
    \A r \in Callers :
        /\ rs[r].unregistered # {} => rs[r].new_trigger_ids # {}
        /\ (rs[r].pc = "done" /\ rs[r].result = FALSE) => ~ResetActed(r)

\* one call was aborted at the registration with the old trigger of the
\* edited workflow still registered, after another call had replaced a trigger
Wit_C32_AbortedKeepsOldTrigger ==
    /\ rs["r1"].pc = "done"
    /\ rs["r1"].result = FALSE
    /\ rs["r1"].key # None
    /\ rs["r1"].old_trigger_ids # {}
    /\ rs["r1"].old_trigger_ids \subseteq triggers
    /\ \E d \in workflows : d._id = rs["r1"].workflow_id /\ d.content = "edited"
    /\ rs["r2"].pc = "done"
    /\ rs["r2"].result = TRUE
    /\ rs["r2"].unregistered # {}

-----------------------------------------------------------------------------
(* Properties of link_account's rejections *)

ValueErrors ==
    {"ValueError: empty", "ValueError: linked to another user",
     "ValueError: different account linked", "ValueError: User not found"}

\* call r takes a step
LinkSteps(r) == lk'[r] # lk[r]

\* what each step of a link_account call must do, given what the step reads
LinkStepContract(r) ==
    LET c == lk[r]
        d == lk'[r]
    IN  /\ (d.pc = "done" /\ d.result \in ValueErrors) => platform_links' = platform_links
        /\ (d.pc # "idle" /\ c.pc \in {"idle", "done"} /\ d.platform_user_id = "")
               => d.result = "ValueError: empty"
        /\ (c.pc = "find_existing"
              /\ LinkedAccounts(c.platform, c.platform_user_id) \ {c.user_id} # {}
              /\ c.user_id \notin LinkedAccounts(c.platform, c.platform_user_id))
               => d.result = "ValueError: linked to another user"
        /\ (c.pc = "find_user"
              /\ CurrentId(c.user_id, c.platform) \notin {None, c.platform_user_id})
               => d.result = "ValueError: different account linked"
        /\ (c.pc = "update" /\ c.user_id \notin Accounts)
               => d.result = "ValueError: User not found"
        /\ (c.pc = "find_existing"
              /\ LinkedAccounts(c.platform, c.platform_user_id) = {c.user_id})
               => d.pc = "find_user"
        /\ (c.pc = "find_user" /\ CurrentId(c.user_id, c.platform) = c.platform_user_id)
               => d.pc = "update"
        /\ (c.pc = "update" /\ c.user_id \in Accounts)
               => /\ d.result = "linked"
                  /\ platform_links'[c.user_id][c.platform] = c.platform_user_id

\* C33: link_account raises ValueError and writes no account document when the
\* platform id is empty, when the pair is linked to a different account, when
\* the account has a different id linked, or when the account does not exist;
\* linking a pair to the account that already holds it succeeds
Thm_C33_LinkRejections ==
    [][\A r \in Callers : LinkSteps(r) => LinkStepContract(r)]_vars

\* one call relinked the pair its account already held, the other was
\* rejected because the pair belongs to another account
Wit_C33_RelinkAndRejected ==
    /\ lk["r1"].pc = "done"
    /\ lk["r1"].result = "linked"
    /\ lk["r1"].current_id = lk["r1"].platform_user_id
    /\ lk["r2"].pc = "done"
    /\ lk["r2"].result = "ValueError: linked to another user"
    /\ lk["r2"].platform_user_id = lk["r1"].platform_user_id
    /\ platform_links[lk["r1"].user_id][lk["r1"].platform] = lk["r1"].platform_user_id
    /\ platform_links[lk["r2"].user_id][lk["r2"].platform] = None

-----------------------------------------------------------------------------
(* Properties of the unauthenticated chat requests *)

\* the chat-stream request in progress came from a user with no account
StreamUnauthenticated == gpc \notin {"idle", "rejected"} /\ chat_conversation_id = NoConv

\* the bot_chat request was answered for a user with no account
ChatUnauthenticated == chat.pc = "returned" /\ ~chat.response.authenticated

\* what an unauthenticated request has done: no chunk taken from an agent,
\* nothing accumulated, no update_messages call, the fixed answer
UnauthenticatedIdle ==
    /\ StreamUnauthenticated =>
           /\ gpc \in {"auth_required", "auth_required_done", "finished", "cancelled"}
           /\ stream = <<>>
           /\ complete_message = ""
           /\ update_calls = 0
           /\ gpc = "finished" => out = <<ErrorEvent("not_authenticated"), RawDone>>
    /\ ChatUnauthenticated =>
           /\ chat.response =
                  BotChatResponse("Please authenticate first using /auth", "", FALSE)
           /\ chat.response_text = None
           /\ chat.history = <<>>

\* a step of an unauthenticated request
UnauthenticatedStep ==
    \/ StreamUnauthenticated' /\ gpc' # gpc
    \/ ChatUnauthenticated' /\ chat' # chat

\* C34: for a user with no linked account bot_chat answers authenticated=False
\* with an empty conversation_id and bot_chat_stream emits the
\* not_authenticated error then the terminal signal; neither creates a session
\* or a conversation, invokes the agent, or writes messages
Thm_C34_UnauthenticatedDoesNothing ==
    /\ []UnauthenticatedIdle
    /\ [][UnauthenticatedStep =>
              UNCHANGED <<bot_sessions, conversations, next_uuid, call>>]_vars

\* both handlers have answered a user with no account
Wit_C34_BothUnauthenticated ==
    /\ gpc = "finished"
    /\ StreamUnauthenticated
    /\ out = <<ErrorEvent("not_authenticated"), RawDone>>
    /\ ChatUnauthenticated
    /\ chat.response.conversation_id = ""

-----------------------------------------------------------------------------
(* Properties of the background warmup tasks *)

\* the failures the task has seen so far are in the log, the services ran to
\* their end, and the follow-up step ran whatever the services did
FailuresContained(t) ==
    /\ task[t].state \in {"after", "finished"} =>
           /\ \A s \in Services : task[t].service[s] \in {"ok", "failed"}
           /\ {s \in Services : task[t].service[s] = "failed"} \subseteq logged
    /\ task[t].state = "finished" =>
           /\ task[t].after \in {"ok", "failed"}
           /\ task[t].after = "failed" => "lazy_providers_warmup_all" \in logged

\* C35: once unified_shutdown has returned every spawned task is finished or
\* cancelled and the registry is empty; a failing service is logged, the
\* other services run to their end and the follow-up step still runs
Thm_C35_ShutdownLeavesNoTask ==
    /\ sd = "returned" =>
           /\ background_tasks = <<>>
           /\ \A t \in TaskNames : task[t].state \in {"unspawned", "finished", "cancelled"}
           /\ \A t \in TaskNames : ~task[t].must_cancel
    /\ \A t \in TaskNames : FailuresContained(t)

\* a service failed, the others and the follow-up step still ran, and the
\* shutdown cancelled the task during the follow-up step
Wit_C35_CancelledAfterFailure ==
    /\ sd = "returned"
    /\ task["startup_warmup"].state = "cancelled"
    /\ task["startup_warmup"].after = "cancelled"
    /\ task["startup_warmup"].service["mongodb"] = "failed"
    /\ task["startup_warmup"].service["vfs"] = "ok"
    /\ "mongodb" \in logged

-----------------------------------------------------------------------------
(* Properties of extract_output_redirect *)

\* t is a target whose text is filepath: a non-empty run without blanks that
\* does not end in a quote, or a non-empty text between single quotes, or a
\* non-empty text between double quotes in which every '"' is escaped
IsTarget(t, filepath) ==
    \/ /\ t = filepath
       /\ t # <<>>
       /\ \A j \in 1..Len(t) : ~IsSpace(t[j])
       /\ t[Len(t)] \notin {"'", "\""}
    \/ /\ Len(t) >= 3
       /\ t[1] = "'" /\ t[Len(t)] = "'"
       /\ filepath = SubSeq(t, 2, Len(t) - 1)
       /\ \A j \in 2..(Len(t) - 1) : t[j] # "'"
    \/ /\ Len(t) >= 3
       /\ t[1] = "\"" /\ t[Len(t)] = "\""
       /\ filepath = SubSeq(t, 2, Len(t) - 1)
       /\ \A j \in 2..(Len(t) - 1) :
              t[j] = "\"" => Backslashes(SubSeq(t, 2, Len(t)), j - 2) % 2 = 1

\* s ends with the operator of r.mode (the whole run of '>' when it is '>'),
\* optional blanks and a target, and r.command is what stands before the
\* operator without its trailing blanks
EndsWithRedirect(s, r) ==
    LET op == IF r.mode = ">>" THEN <<">", ">">> ELSE <<">">>
    IN  \E i \in 0..Len(s), k \in 1..Len(s) :
            /\ i + Len(op) < k
            /\ SubSeq(s, i + 1, i + Len(op)) = op
            /\ \A j \in (i + Len(op) + 1)..(k - 1) : IsSpace(s[j])
            /\ r.mode = ">" => (i = 0 \/ s[i] # ">")
            /\ IsTarget(SubSeq(s, k, Len(s)), r.filepath)
            /\ r.command = rstrip(SubSeq(s, 1, i))

\* C36: a redirect is reported only for a command that, trailing blanks
\* aside, ends with '>' or '>>' and a non-empty target; the command returned
\* is then the text before the operator without trailing blanks and the mode
\* is the operator; otherwise the input comes back unchanged with None
Thm_C36_RedirectOnlyAtEnd ==
    redirect # Absent =>
        IF redirect.mode = None
        THEN redirect.command = command_str /\ redirect.filepath = <<>>
        ELSE /\ redirect.mode \in {">", ">>"}
             /\ EndsWithRedirect(rstrip(command_str), redirect)

\* an append to a double-quoted target
Wit_C36_AppendQuoted ==
    /\ command_str = <<">", ">", "\"", "a", "\"">>
    /\ redirect = [command |-> <<>>, mode |-> ">>", filepath |-> <<"a">>]

-----------------------------------------------------------------------------
(* Properties of split_yaml_frontmatter *)

\* position k of the content starts a line that, stripped, is "---", and
\* position e is where that line ends
DelimiterLine(s, k, e) ==
    /\ k <= e /\ e <= Len(s)
    /\ k = 1 \/ s[k - 1] = "\n" \/ (s[k - 1] = "\r" /\ s[k] # "\n")
    /\ e = k - 1 + LineEnd(SubSeq(s, k, Len(s)))
    /\ strip(SubSeq(s, k, e)) = <<"---">>

\* the content opens with a delimiter line ending at e1 and has a later
\* delimiter line from k to e, the first of them
Delimited(s, e1, k, e) ==
    /\ DelimiterLine(s, 1, e1)
    /\ e1 < k
    /\ DelimiterLine(s, k, e)
    /\ \A k2 \in (e1 + 1)..(k - 1) : \A e2 \in k2..Len(s) : ~DelimiterLine(s, k2, e2)

HasFrontmatter(s) ==
    \E e1 \in 1..Len(s), k \in 1..Len(s), e \in 1..Len(s) : Delimited(s, e1, k, e)

\* x is f without its final line ending, if it has one
WithoutFinalLineEnding(f, x) == x = rstrip_final_line_ending(f)

\* x is f without the line-ending characters it ends with, however many
WithoutTrailingLineEndings(f, x) ==
    /\ Len(x) <= Len(f)
    /\ x = SubSeq(f, 1, Len(x))
    /\ \A j \in (Len(x) + 1)..Len(f) : f[j] \in {"\n", "\r"}
    /\ x # <<>> => x[Len(x)] \notin {"\n", "\r"}

\* the result is the text between the delimiter lines, cut as Cut says, and
\* the text after the closing line
SplitsAs(s, r, Cut(_, _)) ==
    \E e1 \in 1..Len(s), k \in 1..Len(s), e \in 1..Len(s) :
        /\ Delimited(s, e1, k, e)
        /\ Cut(SubSeq(s, e1 + 1, k - 1), r.frontmatter)
        /\ r.body = SubSeq(s, e + 1, Len(s))

\* C37 as stated: a result is returned exactly when the first line and a
\* later line are "---" once stripped; the frontmatter is the lines between
\* them without its final line ending, the body everything after the closing
\* line
Orig_C37_FinalLineEndingOnly ==
    frontmatter # Absent =>
        /\ frontmatter.found <=> HasFrontmatter(content)
        /\ frontmatter.found => SplitsAs(content, frontmatter, WithoutFinalLineEnding)

\* C37: a result is returned exactly when the first line and a later line are
\* "---" once stripped; the frontmatter is the lines between them without any
\* of its trailing line-ending characters, the body everything after the
\* first closing line, unchanged
Thm_C37_FrontmatterSplit ==
    frontmatter # Absent =>
        /\ frontmatter.found <=> HasFrontmatter(content)
        /\ frontmatter.found => SplitsAs(content, frontmatter, WithoutTrailingLineEndings)
        /\ ~frontmatter.found => frontmatter = NoFrontmatter

\* a frontmatter that ends with an empty line: both line endings are removed
Wit_C37_TrailingBlankLine ==
    /\ content = <<"---", "\n", "a", "\n", "\n", "---">>
    /\ frontmatter = [found |-> TRUE, frontmatter |-> <<"a">>, body |-> <<>>]

-----------------------------------------------------------------------------
(* Properties of the counter's expiry *)

\* C38 as stated: a rate-limit key with a count of one or more has a
\* time-to-live, or the call that created it is about to set one, also after
\* an expire call that failed
Orig_C38_CountersAlwaysExpire ==
    (LiveCount >= 1 /\ ratelimit.expires_at = NoExpiry) =>
        \E r \in Callers : rl[r].pc = "expire"

-----------------------------------------------------------------------------
(* Properties of the identities the middleware resolves *)

\* C39 as stated: the identity the API-key + platform-header path takes from
\* its lookup of (platform, platform_user_id) is an account linked to the pair
\* at that moment, also after an unlink or a relink
Orig_C39_PlatformPathFollowsLink ==
    [][(req.pc = "platform_get_cache" /\ req'.authenticated) =>
           req'.user_info \in LinkedAccounts(req.platform, req.platform_user_id)]_vars

\* the middleware authenticates the request through its bearer token
JwtAuthenticates ==
    /\ req.pc \in {"jwt_get_cache", "jwt_set_cache"}
    /\ req'.authenticated
    /\ req'.via = "jwt"

\* C40: the user id of the identity a bearer token authenticates is the
\* token's subject, from the cache as from the store; a cache entry of the
\* same pair that holds another user id is not returned
Thm_C40_JwtIdentityIsSubject ==
    [][JwtAuthenticates =>
           /\ req'.user_info = req.payload.user_id
           /\ (req.pc = "jwt_get_cache" =>
                   get_cache(CacheKey(req.payload.platform,
                                      req.payload.platform_user_id)).user_id
                       = req.payload.user_id)]_vars

\* a token of B was authenticated from the store while the cache entry of the
\* pair still held A
Wit_C40_OtherUserCached ==
    /\ req.pc = "jwt_set_cache"
    /\ req.user_info = "B"
    /\ req.payload.user_id = "B"
    /\ get_cache(CacheKey(req.payload.platform, req.payload.platform_user_id)) # Absent
    /\ get_cache(CacheKey(req.payload.platform, req.payload.platform_user_id)).user_id = "A"
=============================================================================
